---- MODULE Spec2Model ----
(***************************************************************************)
(* PdfPilot: the violation-detection and case-aggregation pipeline.        *)
(*                                                                         *)
(*   ViolationDetector     src/violation_detector.py                       *)
(*   LegalDocumentAnalyzer src/legal_analyzer.py                           *)
(*   CaseManager           src/case_manager.py                             *)
(*   process_uploaded_pdf  src/app.py                                      *)
(*                                                                         *)
(* A Python str is a sequence of one-character strings, so that slicing,   *)
(* lower(), strip() and the regular expressions act on characters as the   *)
(* code's do.  Positions are Python's: 0-based, slices half-open.          *)
(*                                                                         *)
(* A list or dict that a loop builds is written as a function; f \o <<>>   *)
(* and f @@ <<>> are that function as a value computed once.               *)
(***************************************************************************)
EXTENDS Integers, Sequences, FiniteSets, TLC

\* Python's None
None == [py |-> "None"]

-----------------------------------------------------------------------------
(* Python str operations, on sequences of characters *)

\* the characters str.strip() removes and \s matches (ASCII)
WhiteSpace == {" ", "\t", "\n", "\r", "\f"}

\* str.lower() on one character (ASCII letters)
LowerChar(c) ==
    CASE c = "A" -> "a" [] c = "B" -> "b" [] c = "C" -> "c" [] c = "D" -> "d"
      [] c = "E" -> "e" [] c = "F" -> "f" [] c = "G" -> "g" [] c = "H" -> "h"
      [] c = "I" -> "i" [] c = "J" -> "j" [] c = "K" -> "k" [] c = "L" -> "l"
      [] c = "M" -> "m" [] c = "N" -> "n" [] c = "O" -> "o" [] c = "P" -> "p"
      [] c = "Q" -> "q" [] c = "R" -> "r" [] c = "S" -> "s" [] c = "T" -> "t"
      [] c = "U" -> "u" [] c = "V" -> "v" [] c = "W" -> "w" [] c = "X" -> "x"
      [] c = "Y" -> "y" [] c = "Z" -> "z" [] OTHER -> c

\* the capital I with a dot above, the one character whose lower case is two
\* characters: an i and a combining dot
DottedI == "U+0130"

\* the lower case of the characters a+1 .. b of s, the halves one after the other
RECURSIVE LowerFrom(_, _, _)
LowerFrom(s, a, b) ==
    IF a >= b THEN <<>>
    ELSE IF a + 1 = b
         THEN (IF s[b] = DottedI THEN <<"i", "U+0307">> ELSE <<LowerChar(s[b])>>)
         ELSE LowerFrom(s, a, (a + b) \div 2) \o LowerFrom(s, (a + b) \div 2, b)

\* s.lower(): as long as s unless s holds a dotted capital I
Lower(s) ==
    IF \A i \in 1..Len(s) : s[i] # DottedI
    THEN [i \in 1..Len(s) |-> LowerChar(s[i])] \o <<>>
    ELSE LowerFrom(s, 0, Len(s))

Max(a, b) == IF a >= b THEN a ELSE b

Min(a, b) == IF a <= b THEN a ELSE b

\* s[a:b] for 0 <= a, 0 <= b
Slice(s, a, b) == SubSeq(s, a + 1, Min(b, Len(s)))

\* s.strip()
Strip(s) ==
    LET keep == {i \in 1..Len(s) : s[i] \notin WhiteSpace}
    IN  IF keep = {} THEN <<>>
        ELSE SubSeq(s, CHOOSE i \in keep : \A j \in keep : i <= j,
                       CHOOSE i \in keep : \A j \in keep : i >= j)

\* sub in s
Contains(sub, s) ==
    \E i \in 1..(Len(s) - Len(sub) + 1) : SubSeq(s, i, i + Len(sub) - 1) = sub

\* the lists of a list, joined in order
RECURSIVE ConcatFrom(_, _)
ConcatFrom(ss, i) == IF i > Len(ss) THEN <<>> ELSE ss[i] \o ConcatFrom(ss, i + 1)

ConcatAll(ss) == ConcatFrom(ss \o <<>>, 1)

-----------------------------------------------------------------------------
(* The regular expressions of the pattern tables: literal characters, \s+, *)
(* and an optional character or group (x?, (?:...)?), matched as Python's  *)
(* re does: leftmost, greedy, backtracking in priority order.              *)

Lit(c) == [k |-> "lit", c |-> c]

WS == [k |-> "ws"]

Opt(sub) == [k |-> "opt", sub |-> sub]

\* a literal word
W(cs) == [i \in 1..Len(cs) |-> Lit(cs[i])]

\* the length of the run of whitespace of s that starts at position pos
RECURSIVE WsRun(_, _)
WsRun(s, pos) ==
    IF pos < Len(s) /\ s[pos + 1] \in WhiteSpace THEN 1 + WsRun(s, pos + 1) ELSE 0

\* re.match of the items at position pos of s: the end of the match, or -1
RECURSIVE MatchFrom(_, _, _)
RECURSIVE TryWs(_, _, _, _)
MatchFrom(items, s, pos) ==
    IF Len(items) = 0 THEN pos
    ELSE LET it == Head(items)
             rest == Tail(items)
         IN  CASE it.k = "lit" ->
                    IF pos < Len(s) /\ s[pos + 1] = it.c
                    THEN MatchFrom(rest, s, pos + 1) ELSE -1
               [] it.k = "ws" -> TryWs(rest, s, pos, WsRun(s, pos))
               [] it.k = "opt" ->
                    LET taken == MatchFrom(it.sub \o rest, s, pos)
                    IN  IF taken # -1 THEN taken ELSE MatchFrom(rest, s, pos)

\* \s+ is greedy: the longest run first, then shorter ones
TryWs(rest, s, pos, n) ==
    IF n < 1 THEN -1
    ELSE LET e == MatchFrom(rest, s, pos + n)
         IN  IF e # -1 THEN e ELSE TryWs(rest, s, pos, n - 1)

\* the positions of s at which the pattern matches; a pattern that begins
\* with a literal can only match where that character stands
MatchStarts(pattern, s) ==
    LET first == Head(pattern)
        candidates == IF first.k = "lit"
                      THEN {i \in 0..(Len(s) - 1) : s[i + 1] = first.c}
                      ELSE 0..(Len(s) - 1)
    IN  {i \in candidates : MatchFrom(pattern, s, i) # -1}

\* re.finditer(pattern, s): the non-overlapping matches, left to right; the
\* scan resumes at the end of each match
RECURSIVE FindIterFrom(_, _, _, _)
FindIterFrom(pattern, s, starts, from) ==
    LET ahead == {i \in starts : i >= from}
    IN  IF ahead = {} THEN <<>>
        ELSE LET i == CHOOSE x \in ahead : \A y \in ahead : x <= y
                 e == MatchFrom(pattern, s, i)
             IN  <<[start |-> i, end |-> e]>> \o FindIterFrom(pattern, s, starts, e)

finditer(pattern, s) == FindIterFrom(pattern, s, MatchStarts(pattern, s), 0)

-----------------------------------------------------------------------------
(* ViolationDetector.__init__: the pattern tables, in dict order *)

\* violation_patterns: src/violation_detector.py lines 19-114
violation_patterns ==
  <<
    [type |-> "constitutional_violation",
     patterns |-> <<
          W(<<"c","o","n","s","t","i","t","u","t","i","o","n","a","l">>) \o <<WS>> \o W(<<"v","i","o","l","a","t","i","o","n">>),  \* constitutional\s+violation
          W(<<"f","o","u","r","t","e","e","n","t","h">>) \o <<WS>> \o W(<<"a","m","e","n","d","m","e","n","t">>) \o <<WS>> \o W(<<"v","i","o","l","a","t","i","o","n">>),  \* fourteenth\s+amendment\s+violation
          W(<<"d","u","e">>) \o <<WS>> \o W(<<"p","r","o","c","e","s","s">>) \o <<WS>> \o W(<<"v","i","o","l","a","t","i","o","n">>),  \* due\s+process\s+violation
          W(<<"e","q","u","a","l">>) \o <<WS>> \o W(<<"p","r","o","t","e","c","t","i","o","n">>) \o <<WS>> \o W(<<"v","i","o","l","a","t","i","o","n">>)  \* equal\s+protection\s+violation
     >>,
     severity |-> "high",
     description |-> "Constitutional rights violation"],
    [type |-> "removal_without_court_order",
     patterns |-> <<
          W(<<"r","e","m","o","v","e">>) \o <<Opt(W(<<"d">>))>> \o <<WS>> \o W(<<"w","i","t","h","o","u","t">>) \o <<WS>> \o <<Opt(W(<<"c","o","u","r","t">>) \o <<WS>>)>> \o W(<<"o","r","d","e","r">>),  \* removed?\s+without\s+(?:court\s+)?order
          W(<<"e","m","e","r","g","e","n","c","y">>) \o <<WS>> \o W(<<"r","e","m","o","v","a","l">>) \o <<WS>> \o W(<<"w","i","t","h","o","u","t">>) \o <<WS>> \o W(<<"h","e","a","r","i","n","g">>),  \* emergency\s+removal\s+without\s+hearing
          W(<<"t","a","k","e","n">>) \o <<WS>> \o W(<<"i","n","t","o">>) \o <<WS>> \o W(<<"c","u","s","t","o","d","y">>) \o <<WS>> \o W(<<"w","i","t","h","o","u","t">>) \o <<WS>> \o W(<<"w","a","r","r","a","n","t">>)  \* taken\s+into\s+custody\s+without\s+warrant
     >>,
     severity |-> "high",
     description |-> "Child removed without proper court authorization"],
    [type |-> "due_process_denial",
     patterns |-> <<
          W(<<"d","e","n","i","e","d">>) \o <<WS>> \o <<Opt(W(<<"d","u","e">>) \o <<WS>>)>> \o W(<<"p","r","o","c","e","s","s">>),  \* denied\s+(?:due\s+)?process
          W(<<"n","o">>) \o <<WS>> \o W(<<"n","o","t","i","c","e">>) \o <<WS>> \o W(<<"p","r","o","v","i","d","e","d">>),  \* no\s+notice\s+provided
          W(<<"i","n","s","u","f","f","i","c","i","e","n","t">>) \o <<WS>> \o W(<<"n","o","t","i","c","e">>),  \* insufficient\s+notice
          W(<<"e","x">>) \o <<WS>> \o W(<<"p","a","r","t","e">>) \o <<WS>> \o W(<<"p","r","o","c","e","e","d","i","n","g">>)  \* ex\s+parte\s+proceeding
     >>,
     severity |-> "high",
     description |-> "Due process rights denied"],
    [type |-> "delayed_icpc",
     patterns |-> <<
          W(<<"i","c","p","c">>) \o <<WS>> \o W(<<"d","e","l","a","y">>),  \* icpc\s+delay
          W(<<"i","n","t","e","r","s","t","a","t","e">>) \o <<WS>> \o W(<<"c","o","m","p","a","c","t">>) \o <<WS>> \o W(<<"v","i","o","l","a","t","i","o","n">>),  \* interstate\s+compact\s+violation
          W(<<"d","e","l","a","y","e","d">>) \o <<WS>> \o W(<<"p","l","a","c","e","m","e","n","t">>) \o <<WS>> \o W(<<"a","p","p","r","o","v","a","l">>),  \* delayed\s+placement\s+approval
          W(<<"i","c","p","c">>) \o <<WS>> \o W(<<"n","o","t">>) \o <<WS>> \o W(<<"c","o","m","p","l","e","t","e","d">>)  \* icpc\s+not\s+completed
     >>,
     severity |-> "medium",
     description |-> "Delayed ICPC processing affecting placement"],
    [type |-> "missed_hearing",
     patterns |-> <<
          W(<<"h","e","a","r","i","n","g">>) \o <<WS>> \o W(<<"n","o","t">>) \o <<WS>> \o W(<<"h","e","l","d">>),  \* hearing\s+not\s+held
          W(<<"m","i","s","s","e","d">>) \o <<WS>> \o W(<<"h","e","a","r","i","n","g">>),  \* missed\s+hearing
          W(<<"h","e","a","r","i","n","g">>) \o <<WS>> \o W(<<"p","o","s","t","p","o","n","e","d">>) \o <<WS>> \o W(<<"r","e","p","e","a","t","e","d","l","y">>),  \* hearing\s+postponed\s+repeatedly
          W(<<"n","o">>) \o <<WS>> \o W(<<"p","e","r","m","a","n","e","n","c","y">>) \o <<WS>> \o W(<<"h","e","a","r","i","n","g">>)  \* no\s+permanency\s+hearing
     >>,
     severity |-> "medium",
     description |-> "Required hearings missed or delayed"],
    [type |-> "inadequate_reunification",
     patterns |-> <<
          W(<<"n","o">>) \o <<WS>> \o W(<<"r","e","u","n","i","f","i","c","a","t","i","o","n">>) \o <<WS>> \o W(<<"e","f","f","o","r","t">>) \o <<Opt(W(<<"s">>))>>,  \* no\s+reunification\s+efforts?
          W(<<"i","n","s","u","f","f","i","c","i","e","n","t">>) \o <<WS>> \o W(<<"r","e","u","n","i","f","i","c","a","t","i","o","n">>),  \* insufficient\s+reunification
          W(<<"f","a","i","l","e","d">>) \o <<WS>> \o W(<<"t","o">>) \o <<WS>> \o W(<<"p","r","o","v","i","d","e">>) \o <<WS>> \o W(<<"s","e","r","v","i","c","e","s">>),  \* failed\s+to\s+provide\s+services
          W(<<"r","e","u","n","i","f","i","c","a","t","i","o","n">>) \o <<WS>> \o W(<<"n","o","t">>) \o <<WS>> \o W(<<"a","t","t","e","m","p","t","e","d">>)  \* reunification\s+not\s+attempted
     >>,
     severity |-> "medium",
     description |-> "Inadequate or missing reunification efforts"],
    [type |-> "procedural_error",
     patterns |-> <<
          W(<<"p","r","o","c","e","d","u","r","a","l">>) \o <<WS>> \o W(<<"e","r","r","o","r">>),  \* procedural\s+error
          W(<<"i","m","p","r","o","p","e","r">>) \o <<WS>> \o W(<<"p","r","o","c","e","d","u","r","e">>),  \* improper\s+procedure
          W(<<"f","a","i","l","e","d">>) \o <<WS>> \o W(<<"t","o">>) \o <<WS>> \o W(<<"f","o","l","l","o","w">>) \o <<WS>> \o W(<<"p","r","o","t","o","c","o","l">>),  \* failed\s+to\s+follow\s+protocol
          W(<<"s","t","a","t","u","t","o","r","y">>) \o <<WS>> \o W(<<"v","i","o","l","a","t","i","o","n">>)  \* statutory\s+violation
     >>,
     severity |-> "medium",
     description |-> "Procedural or statutory requirements not followed"],
    [type |-> "documentation_error",
     patterns |-> <<
          W(<<"m","i","s","s","i","n","g">>) \o <<WS>> \o W(<<"d","o","c","u","m","e","n","t","a","t","i","o","n">>),  \* missing\s+documentation
          W(<<"i","n","c","o","m","p","l","e","t","e">>) \o <<WS>> \o W(<<"r","e","c","o","r","d","s">>),  \* incomplete\s+records
          W(<<"f","i","l","i","n","g">>) \o <<WS>> \o W(<<"e","r","r","o","r">>),  \* filing\s+error
          W(<<"a","d","m","i","n","i","s","t","r","a","t","i","v","e">>) \o <<WS>> \o W(<<"e","r","r","o","r">>)  \* administrative\s+error
     >>,
     severity |-> "low",
     description |-> "Documentation or administrative errors"],
    [type |-> "timeline_violation",
     patterns |-> <<
          W(<<"d","e","a","d","l","i","n","e">>) \o <<WS>> \o W(<<"m","i","s","s","e","d">>),  \* deadline\s+missed
          W(<<"u","n","t","i","m","e","l","y">>) \o <<WS>> \o W(<<"f","i","l","i","n","g">>),  \* untimely\s+filing
          W(<<"l","a","t","e">>) \o <<WS>> \o W(<<"s","u","b","m","i","s","s","i","o","n">>),  \* late\s+submission
          W(<<"t","i","m","e">>) \o <<WS>> \o W(<<"l","i","m","i","t">>) \o <<WS>> \o W(<<"e","x","c","e","e","d","e","d">>)  \* time\s+limit\s+exceeded
     >>,
     severity |-> "low",
     description |-> "Timeline or deadline violations"]
  >>

\* cps_violations: src/violation_detector.py lines 117-147
cps_violations ==
  <<
    [type |-> "safety_plan_violation",
     patterns |-> <<
          W(<<"s","a","f","e","t","y">>) \o <<WS>> \o W(<<"p","l","a","n">>) \o <<WS>> \o W(<<"n","o","t">>) \o <<WS>> \o W(<<"f","o","l","l","o","w","e","d">>),  \* safety\s+plan\s+not\s+followed
          W(<<"v","i","o","l","a","t","e","d">>) \o <<WS>> \o W(<<"s","a","f","e","t","y">>) \o <<WS>> \o W(<<"p","l","a","n">>),  \* violated\s+safety\s+plan
          W(<<"s","a","f","e","t","y">>) \o <<WS>> \o W(<<"p","l","a","n">>) \o <<WS>> \o W(<<"b","r","e","a","c","h">>)  \* safety\s+plan\s+breach
     >>,
     severity |-> "high",
     description |-> "Safety plan violations"],
    [type |-> "visitation_denial",
     patterns |-> <<
          W(<<"v","i","s","i","t","a","t","i","o","n">>) \o <<WS>> \o W(<<"d","e","n","i","e","d">>),  \* visitation\s+denied
          W(<<"d","e","n","i","e","d">>) \o <<WS>> \o W(<<"a","c","c","e","s","s">>) \o <<WS>> \o W(<<"t","o">>) \o <<WS>> \o W(<<"c","h","i","l","d">>),  \* denied\s+access\s+to\s+child
          W(<<"s","u","p","e","r","v","i","s","e","d">>) \o <<WS>> \o W(<<"v","i","s","i","t","a","t","i","o","n">>) \o <<WS>> \o W(<<"c","a","n","c","e","l","l","e","d">>),  \* supervised\s+visitation\s+cancelled
          W(<<"n","o">>) \o <<WS>> \o W(<<"v","i","s","i","t","a","t","i","o","n">>) \o <<WS>> \o W(<<"a","l","l","o","w","e","d">>)  \* no\s+visitation\s+allowed
     >>,
     severity |-> "medium",
     description |-> "Improper denial of parent-child contact"],
    [type |-> "case_plan_violation",
     patterns |-> <<
          W(<<"c","a","s","e">>) \o <<WS>> \o W(<<"p","l","a","n">>) \o <<WS>> \o W(<<"n","o","t">>) \o <<WS>> \o W(<<"f","o","l","l","o","w","e","d">>),  \* case\s+plan\s+not\s+followed
          W(<<"i","s","p">>) \o <<WS>> \o W(<<"v","i","o","l","a","t","i","o","n">>),  \* isp\s+violation
          W(<<"s","e","r","v","i","c","e">>) \o <<WS>> \o W(<<"p","l","a","n">>) \o <<WS>> \o W(<<"b","r","e","a","c","h">>),  \* service\s+plan\s+breach
          W(<<"t","r","e","a","t","m","e","n","t">>) \o <<WS>> \o W(<<"p","l","a","n">>) \o <<WS>> \o W(<<"i","g","n","o","r","e","d">>)  \* treatment\s+plan\s+ignored
     >>,
     severity |-> "medium",
     description |-> "Case plan or ISP requirements not met"]
  >>

\* family_court_violations: src/violation_detector.py lines 150-171
family_court_violations ==
  <<
    [type |-> "custody_order_violation",
     patterns |-> <<
          W(<<"c","u","s","t","o","d","y">>) \o <<WS>> \o W(<<"o","r","d","e","r">>) \o <<WS>> \o W(<<"v","i","o","l","a","t","e","d">>),  \* custody\s+order\s+violated
          W(<<"p","a","r","e","n","t","i","n","g">>) \o <<WS>> \o W(<<"t","i","m","e">>) \o <<WS>> \o W(<<"d","e","n","i","e","d">>),  \* parenting\s+time\s+denied
          W(<<"c","o","n","t","e","m","p","t">>) \o <<WS>> \o W(<<"o","f">>) \o <<WS>> \o W(<<"c","o","u","r","t">>),  \* contempt\s+of\s+court
          W(<<"o","r","d","e","r">>) \o <<WS>> \o W(<<"n","o","t">>) \o <<WS>> \o W(<<"f","o","l","l","o","w","e","d">>)  \* order\s+not\s+followed
     >>,
     severity |-> "medium",
     description |-> "Court custody orders not followed"],
    [type |-> "judicial_bias",
     patterns |-> <<
          W(<<"j","u","d","i","c","i","a","l">>) \o <<WS>> \o W(<<"b","i","a","s">>),  \* judicial\s+bias
          W(<<"p","r","e","j","u","d","i","c","e","d">>) \o <<WS>> \o W(<<"j","u","d","g","e">>),  \* prejudiced\s+judge
          W(<<"b","i","a","s","e","d">>) \o <<WS>> \o W(<<"r","u","l","i","n","g">>),  \* biased\s+ruling
          W(<<"c","o","n","f","l","i","c","t">>) \o <<WS>> \o W(<<"o","f">>) \o <<WS>> \o W(<<"i","n","t","e","r","e","s","t">>)  \* conflict\s+of\s+interest
     >>,
     severity |-> "high",
     description |-> "Evidence of judicial bias or conflict"]
  >>

-----------------------------------------------------------------------------
(* ViolationDetector.detect_violations *)

\* a score table that lost its 'medium' entry
_get_severity_score_no_medium(severity) ==
    CASE severity = "high" -> 3
      [] severity = "low" -> 1
      [] OTHER -> 1

\* _get_severity_score: scores.get(severity, 1)
_get_severity_score(severity) ==
    CASE severity = "high" -> 3
      [] severity = "medium" -> 2
      [] severity = "low" -> 1
      [] OTHER -> 1

\* the width of the context window on each side of a match
ContextRadius == 100

\* the number of context characters in the deduplication key
KeyLen == 50

\* the keys of a pattern table, in the order the dict holds them
TypesOf(table) == [i \in 1..Len(table) |-> table[i].type]

\* the tables __init__ gives the ViolationDetector object, each by its keys:
\* the entry a key stands for is one of the three literals and is never
\* assigned to
ViolationDetector ==
    [violation_patterns |-> TypesOf(violation_patterns),
     cps_violations |-> TypesOf(cps_violations),
     family_court_violations |-> TypesOf(family_court_violations)]

\* the entry a key of a table of the object stands for
violation_info_of(violation_type) ==
    LET literals == violation_patterns \o cps_violations \o family_court_violations
    IN  literals[CHOOSE i \in 1..Len(literals) : literals[i].type = violation_type]

\* dict.update on the keys: a key the table holds keeps its place, any other
\* goes to the end
RECURSIVE update(_, _)
update(keys, other) ==
    IF Len(other) = 0 THEN keys
    ELSE update(IF \E i \in 1..Len(keys) : keys[i] = Head(other)
                THEN keys ELSE Append(keys, Head(other)),
                Tail(other))

cps_terms == << <<"c","p","s">>,
                <<"c","h","i","l","d"," ","p","r","o","t","e","c","t","i","v","e">>,
                <<"d","h","r">> >>

\* all_patterns: the general table, then the sub-tables whose condition holds
all_patterns(t, doc_type) ==
    LET text_lower == Lower(t)
        cps == \/ Contains(<<"c","p","s">>, Lower(doc_type))
               \/ \E i \in 1..Len(cps_terms) : Contains(cps_terms[i], text_lower)
        family == \/ Contains(<<"c","u","s","t","o","d","y">>, Lower(doc_type))
                  \/ Contains(<<"f","a","m","i","l","y"," ","c","o","u","r","t">>, text_lower)
    IN  violation_patterns
          \o (IF cps THEN cps_violations ELSE <<>>)
          \o (IF family THEN family_court_violations ELSE <<>>)

\* the violation appended for one match
violation_of(t, text_lower, violation_info, match) ==
    LET start == Max(0, match.start - ContextRadius)
        end == Min(Len(t), match.end + ContextRadius)
    IN  [type |-> violation_info.type,
         description |-> violation_info.description,
         severity |-> violation_info.severity,
         context |-> Strip(Slice(t, start, end)),
         pattern_matched |-> Slice(text_lower, match.start, match.end),
         position |-> [start |-> match.start, end |-> match.end],
         severity_score |-> _get_severity_score(violation_info.severity)]

\* the scan: every table entry, every pattern of it, every match of the pattern
scan_patterns(t, doc_type) ==
    LET text_lower == Lower(t)
        all == all_patterns(t, doc_type)
    IN  ConcatAll([e \in 1..Len(all) |->
          ConcatAll([p \in 1..Len(all[e].patterns) |->
            LET matches == finditer(all[e].patterns[p], text_lower)
            IN  [m \in 1..Len(matches) |-> violation_of(t, text_lower, all[e], matches[m])]])])

\* f"{violation['type']}_{violation.get('context', '')[:50]}"; the type is kept
\* as one element: no table key is a prefix of another, so two keys are equal
\* exactly when the types and the context prefixes are
dedup_key(violation) ==
    <<violation.type, "_">> \o Slice(violation.context, 0, KeyLen)

RECURSIVE DedupFrom(_, _, _)
DedupFrom(violations, seen, deduplicated) ==
    IF Len(violations) = 0 THEN deduplicated
    ELSE LET key == dedup_key(Head(violations))
         IN  IF key \notin seen
             THEN DedupFrom(Tail(violations), seen \cup {key},
                            Append(deduplicated, Head(violations)))
             ELSE DedupFrom(Tail(violations), seen, deduplicated)

\* a deduplication keyed on the whole context instead of its first 50 characters
RECURSIVE DedupWholeContext(_, _, _)
DedupWholeContext(violations, seen, deduplicated) ==
    IF Len(violations) = 0 THEN deduplicated
    ELSE LET key == <<Head(violations).type, "_">> \o Head(violations).context
         IN  IF key \notin seen
             THEN DedupWholeContext(Tail(violations), seen \cup {key},
                                    Append(deduplicated, Head(violations)))
             ELSE DedupWholeContext(Tail(violations), seen, deduplicated)

_deduplicate_whole_context(violations) == DedupWholeContext(violations, {}, <<>>)

_deduplicate_violations(violations) == DedupFrom(violations, {}, <<>>)

\* list.sort(key=..., reverse=True) is stable: an element goes after every
\* element already placed whose key is greater or equal
RECURSIVE InsertDesc(_, _)
InsertDesc(sorted, v) ==
    IF Len(sorted) = 0 THEN <<v>>
    ELSE IF Head(sorted).severity_score >= v.severity_score
         THEN <<Head(sorted)>> \o InsertDesc(Tail(sorted), v)
         ELSE <<v>> \o sorted

RECURSIVE SortFrom(_, _)
SortFrom(violations, sorted) ==
    IF Len(violations) = 0 THEN sorted
    ELSE SortFrom(Tail(violations), InsertDesc(sorted, Head(violations)))

\* a sort that is not stable: an element goes before the placed elements of
\* equal key
RECURSIVE InsertDescTiesFirst(_, _)
InsertDescTiesFirst(sorted, v) ==
    IF Len(sorted) = 0 THEN <<v>>
    ELSE IF Head(sorted).severity_score > v.severity_score
         THEN <<Head(sorted)>> \o InsertDescTiesFirst(Tail(sorted), v)
         ELSE <<v>> \o sorted

RECURSIVE SortTiesFirstFrom(_, _)
SortTiesFirstFrom(violations, sorted) ==
    IF Len(violations) = 0 THEN sorted
    ELSE SortTiesFirstFrom(Tail(violations), InsertDescTiesFirst(sorted, Head(violations)))

sort_ties_reversed(violations) == SortTiesFirstFrom(violations, <<>>)

sort_by_severity_score(violations) == SortFrom(violations, <<>>)

detect_violations(t, doc_type) ==
    sort_by_severity_score(_deduplicate_violations(scan_patterns(t, doc_type)))

\* the keys of all_patterns in a call on the object: a copy of the general
\* table's, updated with those of the sub-tables whose condition holds
all_patterns_on(self, t, doc_type) ==
    LET text_lower == Lower(t)
        cps == \/ Contains(<<"c","p","s">>, Lower(doc_type))
               \/ \E i \in 1..Len(cps_terms) : Contains(cps_terms[i], text_lower)
        family == \/ Contains(<<"c","u","s","t","o","d","y">>, Lower(doc_type))
                  \/ Contains(<<"f","a","m","i","l","y"," ","c","o","u","r","t">>, text_lower)
        general == self.violation_patterns
        with_cps == IF cps THEN update(general, self.cps_violations) ELSE general
    IN  IF family THEN update(with_cps, self.family_court_violations) ELSE with_cps

\* the scan over the entries of the given keys
scan_on(keys, t) ==
    LET text_lower == Lower(t)
        all == [e \in 1..Len(keys) |-> violation_info_of(keys[e])]
    IN  ConcatAll([e \in 1..Len(all) |->
          ConcatAll([p \in 1..Len(all[e].patterns) |->
            LET matches == finditer(all[e].patterns[p], text_lower)
            IN  [m \in 1..Len(matches) |-> violation_of(t, text_lower, all[e], matches[m])]])])

\* the mutant of detect_violations_on that updates the general table itself:
\* all_patterns = self.violation_patterns
detect_violations_on_shared(self, t, doc_type) ==
    LET keys == all_patterns_on(self, t, doc_type)
        violations == scan_on(keys, t)
    IN  [scanned |-> violations,
         returned |-> sort_by_severity_score(_deduplicate_violations(violations)),
         self |-> [self EXCEPT !.violation_patterns = keys]]

\* detect_violations called on the object: the list before deduplication, the
\* list returned, and the object after the call. {**self.violation_patterns}
\* is a new dict, so the updates leave the object's tables alone
detect_violations_on(self, t, doc_type) ==
    LET keys == all_patterns_on(self, t, doc_type)
        violations == scan_on(keys, t)
    IN  [scanned |-> violations,
         returned |-> sort_by_severity_score(_deduplicate_violations(violations)),
         self |-> self]

-----------------------------------------------------------------------------
(* LegalDocumentAnalyzer *)

document_types ==
  <<
    [type |-> "petition", name |-> <<"p","e","t","i","t","i","o","n">>,
     keywords |-> <<<<"p","e","t","i","t","i","o","n">>,
                   <<"c","o","m","p","l","a","i","n","t">>,
                   <<"f","i","l","i","n","g">>>>],
    [type |-> "motion", name |-> <<"m","o","t","i","o","n">>,
     keywords |-> <<<<"m","o","t","i","o","n">>,
                   <<"r","e","q","u","e","s","t">>,
                   <<"a","p","p","l","i","c","a","t","i","o","n">>>>],
    [type |-> "order", name |-> <<"o","r","d","e","r">>,
     keywords |-> <<<<"o","r","d","e","r">>,
                   <<"j","u","d","g","m","e","n","t">>,
                   <<"d","e","c","r","e","e">>,
                   <<"r","u","l","i","n","g">>>>],
    [type |-> "pleading", name |-> <<"p","l","e","a","d","i","n","g">>,
     keywords |-> <<<<"a","n","s","w","e","r">>,
                   <<"r","e","s","p","o","n","s","e">>,
                   <<"r","e","p","l","y">>,
                   <<"c","o","u","n","t","e","r">>>>],
    [type |-> "evidence", name |-> <<"e","v","i","d","e","n","c","e">>,
     keywords |-> <<<<"e","x","h","i","b","i","t">>,
                   <<"a","f","f","i","d","a","v","i","t">>,
                   <<"d","e","c","l","a","r","a","t","i","o","n">>,
                   <<"t","e","s","t","i","m","o","n","y">>>>],
    [type |-> "custody", name |-> <<"c","u","s","t","o","d","y">>,
     keywords |-> <<<<"c","u","s","t","o","d","y">>,
                   <<"v","i","s","i","t","a","t","i","o","n">>,
                   <<"p","a","r","e","n","t","i","n","g">>,
                   <<"c","h","i","l","d"," ","s","u","p","p","o","r","t">>>>],
    [type |-> "cps", name |-> <<"c","p","s">>,
     keywords |-> <<<<"c","p","s">>,
                   <<"c","h","i","l","d"," ","p","r","o","t","e","c","t","i","v","e">>,
                   <<"d","h","r">>,
                   <<"r","e","m","o","v","a","l">>,
                   <<"p","l","a","c","e","m","e","n","t">>>>],
    [type |-> "isp", name |-> <<"i","s","p">>,
     keywords |-> <<<<"s","e","r","v","i","c","e"," ","p","l","a","n">>,
                   <<"c","a","s","e"," ","p","l","a","n">>,
                   <<"t","r","e","a","t","m","e","n","t"," ","p","l","a","n">>,
                   <<"g","o","a","l","s">>>>]
  >>

violation_indicators ==
  <<
    [name |-> "due process violation",
     chars |-> <<"d","u","e"," ","p","r","o","c","e","s","s"," ","v","i","o","l","a","t","i","o","n">>],
    [name |-> "constitutional violation",
     chars |-> <<"c","o","n","s","t","i","t","u","t","i","o","n","a","l"," ","v","i","o","l","a","t","i","o","n">>],
    [name |-> "procedural error",
     chars |-> <<"p","r","o","c","e","d","u","r","a","l"," ","e","r","r","o","r">>],
    [name |-> "jurisdictional issue",
     chars |-> <<"j","u","r","i","s","d","i","c","t","i","o","n","a","l"," ","i","s","s","u","e">>],
    [name |-> "inadequate representation",
     chars |-> <<"i","n","a","d","e","q","u","a","t","e"," ","r","e","p","r","e","s","e","n","t","a","t","i","o","n">>],
    [name |-> "failure to provide notice",
     chars |-> <<"f","a","i","l","u","r","e"," ","t","o"," ","p","r","o","v","i","d","e"," ","n","o","t","i","c","e">>],
    [name |-> "ex parte communication",
     chars |-> <<"e","x"," ","p","a","r","t","e"," ","c","o","m","m","u","n","i","c","a","t","i","o","n">>],
    [name |-> "bias or prejudice",
     chars |-> <<"b","i","a","s"," ","o","r"," ","p","r","e","j","u","d","i","c","e">>],
    [name |-> "insufficient evidence",
     chars |-> <<"i","n","s","u","f","f","i","c","i","e","n","t"," ","e","v","i","d","e","n","c","e">>],
    [name |-> "improper venue",
     chars |-> <<"i","m","p","r","o","p","e","r"," ","v","e","n","u","e">>],
    [name |-> "statute of limitations",
     chars |-> <<"s","t","a","t","u","t","e"," ","o","f"," ","l","i","m","i","t","a","t","i","o","n","s">>],
    [name |-> "discovery violation",
     chars |-> <<"d","i","s","c","o","v","e","r","y"," ","v","i","o","l","a","t","i","o","n">>],
    [name |-> "brady violation",
     chars |-> <<"b","r","a","d","y"," ","v","i","o","l","a","t","i","o","n">>],
    [name |-> "ineffective assistance",
     chars |-> <<"i","n","e","f","f","e","c","t","i","v","e"," ","a","s","s","i","s","t","a","n","c","e">>]
  >>

Minimum(S) == CHOOSE x \in S : \A y \in S : x <= y

Maximum(S) == CHOOSE x \in S : \A y \in S : x >= y

\* sum(ns)
RECURSIVE SumFrom(_, _)
SumFrom(ns, i) == IF i > Len(ns) THEN 0 ELSE ns[i] + SumFrom(ns, i + 1)

SumSeq(ns) == SumFrom(ns \o <<>>, 1)

\* the positions of s at which sub stands
Occurrences(sub, s) ==
    {i \in 0..(Len(s) - Len(sub)) : SubSeq(s, i + 1, i + Len(sub)) = sub}

\* s.count(sub): the occurrences of sub in s that do not overlap, left to right
RECURSIVE CountFrom(_, _, _)
CountFrom(sub, occurrences, from) ==
    LET ahead == {i \in occurrences : i >= from}
    IN  IF ahead = {} THEN 0
        ELSE 1 + CountFrom(sub, occurrences, Minimum(ahead) + Len(sub))

Count(sub, s) == CountFrom(sub, Occurrences(sub, s), 0)

unknown_type == <<"u","n","k","n","o","w","n">>

\* the mutant of analyze_document_type that takes the first type with a score
\* for the primary one
analyze_document_type_first_scored(t) ==
    LET text_lower == Lower(t)
        score == [e \in 1..Len(document_types) |->
                    SumSeq([k \in 1..Len(document_types[e].keywords) |->
                              Count(document_types[e].keywords[k], text_lower)])] \o <<>>
        \* the keys of `scores`, in insertion order
        scored == {e \in 1..Len(document_types) : score[e] > 0}
    IN  IF scored = {}
        THEN [type |-> unknown_type, confidence |-> [num |-> 0, den |-> 1]]
        ELSE LET \* the first key
                 primary == Minimum(scored)
                 total == SumSeq([e \in 1..Len(document_types) |-> score[e]])
             IN  [type |-> document_types[primary].name,
                  confidence |-> [num |-> score[primary], den |-> total],
                  all_scores |-> [e \in scored |-> score[e]] @@ <<>>]

\* analyze_document_type; the confidence, a float quotient, is kept as the pair
\* of its numerator and denominator
analyze_document_type(t) ==
    LET text_lower == Lower(t)
        score == [e \in 1..Len(document_types) |->
                    SumSeq([k \in 1..Len(document_types[e].keywords) |->
                              Count(document_types[e].keywords[k], text_lower)])] \o <<>>
        \* the keys of `scores`, in insertion order
        scored == {e \in 1..Len(document_types) : score[e] > 0}
    IN  IF scored = {}
        THEN [type |-> unknown_type, confidence |-> [num |-> 0, den |-> 1]]
        ELSE LET \* max(scores, key=scores.get): the first key of the greatest score
                 primary == Minimum({e \in scored : \A f \in scored : score[e] >= score[f]})
                 total == SumSeq([e \in 1..Len(document_types) |-> score[e]])
             IN  [type |-> document_types[primary].name,
                  confidence |-> [num |-> score[primary], den |-> total],
                  all_scores |-> [e \in scored |-> score[e]] @@ <<>>]

\* _assess_violation_severity
_assess_violation_severity(violation_type) ==
    IF violation_type \in {"constitutional violation", "due process violation",
                           "brady violation"}
    THEN "high"
    ELSE IF violation_type \in {"procedural error", "discovery violation",
                                "inadequate representation"}
         THEN "medium"
         ELSE "low"

\* the reach of .{0,100} in rf'.{{0,100}}{re.escape(indicator)}.{{0,100}}'
IndicatorReach == 100

\* '.' matches every character but the newline
NoNewline(s, a, b) == \A j \in (a + 1)..b : s[j] # "\n"

\* where the indicator can stand in a match of the context pattern that
\* starts at position p
IndicatorAt(indicator, s, p) ==
    {q \in Occurrences(indicator, s) :
        p <= q /\ q <= p + IndicatorReach /\ NoNewline(s, p, q)}

\* re.findall(pattern, s): the matches in full (the pattern has no group);
\* each .{0,100} is greedy
RECURSIVE FindContextsFrom(_, _, _)
FindContextsFrom(indicator, s, from) ==
    LET starts == {p \in from..Len(s) : IndicatorAt(indicator, s, p) # {}}
    IN  IF starts = {} THEN <<>>
        ELSE LET p == Minimum(starts)
                 e == Maximum(IndicatorAt(indicator, s, p)) + Len(indicator)
                 tail == Maximum({n \in 0..IndicatorReach :
                                     e + n <= Len(s) /\ NoNewline(s, e, e + n)})
             IN  <<Slice(s, p, e + tail)>>
                     \o FindContextsFrom(indicator, s, e + tail)

\* detect_potential_violations: records of type, context and severity only
detect_potential_violations(t) ==
    LET text_lower == Lower(t)
    IN  ConcatAll([i \in 1..Len(violation_indicators) |->
          IF Contains(violation_indicators[i].chars, text_lower)
          THEN LET matches == FindContextsFrom(violation_indicators[i].chars,
                                               text_lower, 0)
               IN  [m \in 1..Len(matches) |->
                      [type |-> violation_indicators[i].name,
                       context |-> Strip(matches[m]),
                       severity |-> _assess_violation_severity(
                                        violation_indicators[i].name)]]
          ELSE <<>>])

\* comprehensive_legal_analysis, given what extract_legal_entities returns for
\* the text.  The fields the case manager never reads (specialized_analysis,
\* procedural_analysis, analysis_timestamp) are left out.
comprehensive_legal_analysis(t, entities) ==
    [document_type |-> analyze_document_type(t),
     legal_entities |-> entities,
     potential_violations |-> detect_potential_violations(t)]

-----------------------------------------------------------------------------
(* Dates: datetime.strptime and the difference of two datetimes *)

\* A date string is kept with its lexical shape next to its text:
\*   numeric  a<sep>b<sep>c    digit runs a, b, c as [val, width]
\*   named    <month name> <day>[,] <year>
\*   other    anything else
NumericDate(str, sep, a, b, c) ==
    [str |-> str, shape |-> "numeric", sep |-> sep, a |-> a, b |-> b, c |-> c]

NamedDate(str, month, name, comma, day, year) ==
    [str |-> str, shape |-> "named", month |-> month, name |-> name,
     comma |-> comma, day |-> day, year |-> year]

OtherDate(str) == [str |-> str, shape |-> "other"]

Digits(val, width) == [val |-> val, width |-> width]

IsLeap(y) == (y % 4 = 0 /\ y % 100 # 0) \/ y % 400 = 0

DaysInMonth(y, m) ==
    IF m = 2 THEN (IF IsLeap(y) THEN 29 ELSE 28)
    ELSE IF m \in {4, 6, 9, 11} THEN 30 ELSE 31

\* datetime(year, month, day), None where the constructor raises ValueError
MakeDate(y, m, d) ==
    IF y >= 1 /\ y <= 9999 /\ m >= 1 /\ m <= 12 /\ d >= 1
    THEN (IF d <= DaysInMonth(y, m)
          THEN [year |-> y, month |-> m, day |-> d]
          ELSE None)
    ELSE None

\* what one directive accepts of a digit run
Accepts(directive, run) ==
    CASE directive = "m" -> run.width \in 1..2 /\ run.val \in 1..12
      [] directive = "d" -> run.width \in 1..2 /\ run.val \in 1..31
      [] directive = "Y" -> run.width = 4
      [] directive = "y" -> run.width = 2

\* the year a %Y or %y directive reads: two digits 00-68 are 2000-2068 and
\* 69-99 are 1969-1999
YearOf(directive, run) ==
    IF directive = "Y" THEN run.val
    ELSE IF run.val <= 68 THEN 2000 + run.val ELSE 1900 + run.val

NumericFormat(sep, d1, d2, d3) ==
    [shape |-> "numeric", sep |-> sep, directives |-> <<d1, d2, d3>>]

NamedFormat(name, comma) == [shape |-> "named", name |-> name, comma |-> comma]

\* date_formats of _parse_date, in its order
date_formats ==
    << NumericFormat("/", "m", "d", "Y"),     \* %m/%d/%Y
       NumericFormat("-", "m", "d", "Y"),     \* %m-%d-%Y
       NumericFormat("/", "m", "d", "y"),     \* %m/%d/%y
       NumericFormat("-", "m", "d", "y"),     \* %m-%d-%y
       NamedFormat("B", TRUE),                \* %B %d, %Y
       NamedFormat("b", TRUE),                \* %b %d, %Y
       NamedFormat("B", FALSE),               \* %B %d %Y
       NamedFormat("b", FALSE),               \* %b %d %Y
       NumericFormat("-", "Y", "m", "d"),     \* %Y-%m-%d
       NumericFormat("/", "d", "m", "Y"),     \* %d/%m/%Y
       NumericFormat("-", "d", "m", "Y") >>   \* %d-%m-%Y

\* datetime.strptime(date_str, fmt), None where it raises
strptime(date_str, fmt) ==
    IF date_str.shape # fmt.shape THEN None
    ELSE IF fmt.shape = "numeric"
    THEN LET runs == <<date_str.a, date_str.b, date_str.c>>
             at(directives) == CHOOSE i \in 1..3 : fmt.directives[i] \in directives
         IN  IF /\ date_str.sep = fmt.sep
                /\ \A i \in 1..3 : Accepts(fmt.directives[i], runs[i])
             THEN MakeDate(YearOf(fmt.directives[at({"Y", "y"})], runs[at({"Y", "y"})]),
                           runs[at({"m"})].val,
                           runs[at({"d"})].val)
             ELSE None
    ELSE IF /\ fmt.name \in date_str.name
            /\ date_str.comma = fmt.comma
            /\ Accepts("d", date_str.day)
            /\ Accepts("Y", date_str.year)
         THEN MakeDate(date_str.year.val, date_str.month, date_str.day.val)
         ELSE None

\* the mutant of _parse_date that goes on after a format has parsed and
\* returns what the last parsing format reads
_parse_date_last_format(date_str) ==
    LET parsing == {i \in 1..Len(date_formats) : strptime(date_str, date_formats[i]) # None}
    IN  IF parsing = {} THEN None
        ELSE strptime(date_str, date_formats[CHOOSE i \in parsing : \A j \in parsing : j <= i])

\* _parse_date: the first format that parses the string
RECURSIVE ParseFrom(_, _)
ParseFrom(date_str, i) ==
    IF i > Len(date_formats) THEN None
    ELSE IF strptime(date_str, date_formats[i]) # None
         THEN strptime(date_str, date_formats[i])
         ELSE ParseFrom(date_str, i + 1)

_parse_date(date_str) == ParseFrom(date_str, 1)

\* date.toordinal(): the days from 0001-01-01, which is day 1
DaysBeforeYear(y) ==
    (y - 1) * 365 + (y - 1) \div 4 - (y - 1) \div 100 + (y - 1) \div 400

RECURSIVE DaysBeforeMonth(_, _)
DaysBeforeMonth(y, m) ==
    IF m = 1 THEN 0 ELSE DaysBeforeMonth(y, m - 1) + DaysInMonth(y, m - 1)

toordinal(date) ==
    DaysBeforeYear(date.year) + DaysBeforeMonth(date.year, date.month) + date.day

\* (later - earlier).days
DaysBetween(earlier, later) == toordinal(later) - toordinal(earlier)

-----------------------------------------------------------------------------
(* Python values *)

\* a dict in insertion order: a sequence of [key, value] entries
Keys(d) == {d[i].key : i \in 1..Len(d)}

Get(d, k) == d[CHOOSE i \in 1..Len(d) : d[i].key = k].value

\* d[k] = v: a key already in the dict keeps its place
Put(d, k, v) ==
    IF k \in Keys(d)
    THEN [i \in 1..Len(d) |-> IF d[i].key = k THEN [key |-> k, value |-> v] ELSE d[i]]
             \o <<>>
    ELSE Append(d, [key |-> k, value |-> v])

\* a set, and the list that list(a_set) makes of it: its members in an order
\* the interpreter does not fix, so the members are all that is kept of it
PySet(members) == [py |-> "set", members |-> members]

PyList(members) == [py |-> "list", members |-> members]

Range(s) == {s[i] : i \in 1..Len(s)}

\* every ordering of a set as a list
Orderings(S) ==
    {s \in [1..Cardinality(S) -> S] : \A i, j \in 1..Cardinality(S) : s[i] = s[j] => i = j}

\* two decimal digits and four decimal digits of a number, as characters
DigitChars == <<"0", "1", "2", "3", "4", "5", "6", "7", "8", "9">>

Digit(n) == DigitChars[n + 1]

TwoDigits(n) == <<Digit(n \div 10), Digit(n % 10)>>

FourDigits(n) == TwoDigits(n \div 100) \o TwoDigits(n % 100)

\* str(datetime) of a datetime at midnight: 'YYYY-MM-DD 00:00:00'
str_datetime(date) ==
    FourDigits(date.year) \o <<"-">> \o TwoDigits(date.month) \o <<"-">>
        \o TwoDigits(date.day) \o <<" ", "0", "0", ":", "0", "0", ":", "0", "0">>

-----------------------------------------------------------------------------
(* CaseManager *)

\* the entity kinds a new case starts with
case_entity_kinds ==
    {"judges", "attorneys", "caseworkers", "children", "case_numbers", "courts"}

\* create_case_session; created_date, last_updated and analysis_summary, which
\* no operation here reads, are left out
create_case_session(case_id, case_name) ==
    [case_id |-> case_id,
     case_name |-> case_name,
     documents |-> <<>>,
     timeline |-> <<>>,
     entities |-> [kind \in case_entity_kinds |-> PySet({})] @@ <<>>,
     violations |-> <<>>,
     contradictions |-> <<>>,
     actor_tracking |-> <<>>]

\* violation['document_hash'] = pdf_hash; violation['document_name'] = filename
Stamp(violation, pdf_hash, filename) ==
    ("document_hash" :> pdf_hash @@ "document_name" :> filename) @@ violation

\* the legal analysis after add_document_to_case has stamped its potential
\* violations, which are the same objects in all_violations
StampAnalysis(legal_analysis, pdf_hash, filename) ==
    LET stamp(vs) == [i \in 1..Len(vs) |-> Stamp(vs[i], pdf_hash, filename)] \o <<>>
        n == Len(legal_analysis.potential_violations)
    IN  IF "potential_violations" \in DOMAIN legal_analysis
        THEN (IF "all_violations" \in DOMAIN legal_analysis
              THEN [legal_analysis EXCEPT
                      !.potential_violations = stamp(@),
                      !.all_violations = stamp(SubSeq(@, 1, n))
                                             \o SubSeq(@, n + 1, Len(@))]
              ELSE [legal_analysis EXCEPT !.potential_violations = stamp(@)])
        ELSE legal_analysis

\* the case-level entities after the update loop of add_document_to_case
UpdateEntities(case_entities, legal_analysis) ==
    IF "legal_entities" \in DOMAIN legal_analysis
    THEN LET entities == legal_analysis.legal_entities
         IN  [kind \in DOMAIN case_entities |->
                IF kind \in DOMAIN entities
                THEN \* set.update(values), or set(a_list + values)
                     PySet(case_entities[kind].members \cup Range(entities[kind]))
                ELSE case_entities[kind]] @@ <<>>
    ELSE case_entities

\* add_document_to_case
add_document_to_case(case_data, pdf_hash, document_analysis, legal_analysis) ==
    LET filename == IF "filename" \in DOMAIN document_analysis
                    THEN document_analysis.filename
                    ELSE "Unknown"
        stamped == StampAnalysis(legal_analysis, pdf_hash, filename)
        doc_entry == [pdf_hash |-> pdf_hash,
                      document_analysis |-> document_analysis,
                      legal_analysis |-> stamped,
                      filename |-> filename]
    IN  [case_data EXCEPT
            !.documents = Put(@, pdf_hash, doc_entry),
            !.entities = UpdateEntities(@, legal_analysis),
            !.violations = IF "potential_violations" \in DOMAIN legal_analysis
                           THEN @ \o stamped.potential_violations
                           ELSE @]

\* the date strings a document's analysis lists, none without the keys
DatesOf(analysis) ==
    IF "legal_entities" \in DOMAIN analysis
    THEN (IF "dates" \in DOMAIN analysis.legal_entities
          THEN analysis.legal_entities.dates
          ELSE <<>>)
    ELSE <<>>

\* legal_analysis.get('document_type', {}).get('type', 'unknown')
TypeOf(analysis) ==
    IF "document_type" \in DOMAIN analysis
    THEN (IF "type" \in DOMAIN analysis.document_type
          THEN analysis.document_type.type
          ELSE unknown_type)
    ELSE unknown_type

timeline_event(doc, parsed_date, date_str) ==
    [date |-> parsed_date,
     date_str |-> date_str.str,
     document |-> doc.filename,
     document_hash |-> doc.pdf_hash,
     document_type |-> TypeOf(doc.legal_analysis),
     context |-> <<"Referenced in ", doc.filename>>]

\* the sort key of generate_timeline: x['date'] if x['date'] else datetime.min
DateKey(event) == IF event.date # None THEN toordinal(event.date) ELSE 1

\* list.sort(key=...): ascending and stable
RECURSIVE InsertAsc(_, _)
InsertAsc(sorted, event) ==
    IF Len(sorted) = 0 THEN <<event>>
    ELSE IF DateKey(sorted[Len(sorted)]) <= DateKey(event)
         THEN Append(sorted, event)
         ELSE Append(InsertAsc(SubSeq(sorted, 1, Len(sorted) - 1), event),
                     sorted[Len(sorted)])

RECURSIVE SortAscFrom(_, _)
SortAscFrom(sorted, rest) ==
    IF Len(rest) = 0 THEN sorted
    ELSE SortAscFrom(InsertAsc(sorted, Head(rest)), Tail(rest))

sort_by_date(events) == SortAscFrom(<<>>, events)

\* the events of one document, in the order of its date strings
EventsOf(doc) ==
    LET dates == DatesOf(doc.legal_analysis)
        parsed == SelectSeq([i \in 1..Len(dates) |->
                               [date_str |-> dates[i], date |-> _parse_date(dates[i])]],
                            LAMBDA p : p.date # None)
    IN  [i \in 1..Len(parsed) |-> timeline_event(doc, parsed[i].date, parsed[i].date_str)]

\* the events of one document when an unparsed date is not dropped
EventsUnfilteredOf(doc) ==
    LET dates == DatesOf(doc.legal_analysis)
    IN  [i \in 1..Len(dates) |-> timeline_event(doc, _parse_date(dates[i]), dates[i])]

\* the mutant of generate_timeline that keeps the events of unparsed dates
generate_timeline_unfiltered(case_data) ==
    [case_data EXCEPT !.timeline =
        sort_by_date(ConcatAll([i \in 1..Len(case_data.documents) |->
                                  EventsUnfilteredOf(case_data.documents[i].value)]))]

\* the mutant of generate_timeline that appends to the timeline it finds
generate_timeline_appending(case_data) ==
    [case_data EXCEPT !.timeline =
        sort_by_date(@ \o ConcatAll([i \in 1..Len(case_data.documents) |->
                                       EventsOf(case_data.documents[i].value)]))]

\* generate_timeline: the case with its timeline replaced
generate_timeline(case_data) ==
    [case_data EXCEPT !.timeline =
        sort_by_date(ConcatAll([i \in 1..Len(case_data.documents) |->
                                  EventsOf(case_data.documents[i].value)]))]

\* the distinct members of a list, each at its first place
RECURSIVE Distinct(_)
Distinct(s) ==
    IF Len(s) = 0 THEN <<>>
    ELSE LET before == Distinct(SubSeq(s, 1, Len(s) - 1))
         IN  IF s[Len(s)] \in Range(before) THEN before ELSE Append(before, s[Len(s)])

\* the case numbers a document's analysis lists, none without the keys
CaseNumbersOf(analysis) ==
    IF "legal_entities" \in DOMAIN analysis
    THEN (IF "case_numbers" \in DOMAIN analysis.legal_entities
          THEN analysis.legal_entities.case_numbers
          ELSE <<>>)
    ELSE <<>>

\* the mutant of detect_contradictions that flags every case number of two or
\* more documents, whatever their types
detect_contradictions_untyped(case_data) ==
    LET documents == case_data.documents
        \* one mention per document and case number, in the order of the loops
        mentions == ConcatAll([i \in 1..Len(documents) |->
            LET nums == CaseNumbersOf(documents[i].value.legal_analysis)
            IN  [n \in 1..Len(nums) |->
                   [case_num |-> nums[n],
                    document |-> documents[i].value.filename,
                    hash |-> documents[i].key]]])
        \* the keys of the case_numbers dict, in insertion order
        case_nums == Distinct([m \in 1..Len(mentions) |-> mentions[m].case_num])
        docs(case_num) == SelectSeq(mentions, LAMBDA m : m.case_num = case_num)
        doc_types(case_num) ==
            {TypeOf(Get(documents, docs(case_num)[d].hash).legal_analysis) :
                d \in 1..Len(docs(case_num))}
        flagged == SelectSeq(case_nums,
                             LAMBDA c : Len(docs(c)) > 1 /\ Cardinality(doc_types(c)) > 0)
    IN  [case_data EXCEPT !.contradictions =
            [c \in 1..Len(flagged) |->
               [type |-> "case_number_inconsistency",
                severity |-> "medium",
                description |-> <<"Case number ", flagged[c],
                                  " appears in documents of different types">>,
                documents |-> [d \in 1..Len(docs(flagged[c])) |->
                                 docs(flagged[c])[d].document] \o <<>>,
                case_number |-> flagged[c]]] \o <<>>]

\* detect_contradictions: the case with its contradictions replaced.  The
\* all_dates dict the method also fills is never read.
detect_contradictions(case_data) ==
    LET documents == case_data.documents
        \* one mention per document and case number, in the order of the loops
        mentions == ConcatAll([i \in 1..Len(documents) |->
            LET nums == CaseNumbersOf(documents[i].value.legal_analysis)
            IN  [n \in 1..Len(nums) |->
                   [case_num |-> nums[n],
                    document |-> documents[i].value.filename,
                    hash |-> documents[i].key]]])
        \* the keys of the case_numbers dict, in insertion order
        case_nums == Distinct([m \in 1..Len(mentions) |-> mentions[m].case_num])
        docs(case_num) == SelectSeq(mentions, LAMBDA m : m.case_num = case_num)
        doc_types(case_num) ==
            {TypeOf(Get(documents, docs(case_num)[d].hash).legal_analysis) :
                d \in 1..Len(docs(case_num))}
        flagged == SelectSeq(case_nums,
                             LAMBDA c : Len(docs(c)) > 1 /\ Cardinality(doc_types(c)) > 1)
    IN  [case_data EXCEPT !.contradictions =
            [c \in 1..Len(flagged) |->
               [type |-> "case_number_inconsistency",
                severity |-> "medium",
                description |-> <<"Case number ", flagged[c],
                                  " appears in documents of different types">>,
                documents |-> [d \in 1..Len(docs(flagged[c])) |->
                                 docs(flagged[c])[d].document] \o <<>>,
                case_number |-> flagged[c]]] \o <<>>]

\* the judge names a document's analysis lists, none without the keys
JudgesOf(analysis) ==
    IF "legal_entities" \in DOMAIN analysis
    THEN (IF "judge_names" \in DOMAIN analysis.legal_entities
          THEN analysis.legal_entities.judge_names
          ELSE <<>>)
    ELSE <<>>

\* severity_scores.get(violation.get('severity', 'low'), 1)
actor_severity_score(violation) ==
    IF "severity" \in DOMAIN violation
    THEN (CASE violation.severity = "high" -> 3
            [] violation.severity = "medium" -> 2
            [] OTHER -> 1)
    ELSE 1

\* the mutant of track_repeat_actors that adds to the tracking it finds
track_repeat_actors_accumulating(case_data) ==
    LET documents == case_data.documents
        violations == case_data.violations
        before == case_data.actor_tracking
        owned(v) == IF "document_hash" \in DOMAIN v
                    THEN v.document_hash \in Keys(documents)
                    ELSE FALSE
        entries == ConcatAll([i \in 1..Len(violations) |->
            IF owned(violations[i])
            THEN LET doc == Get(documents, violations[i].document_hash)
                     judges == JudgesOf(doc.legal_analysis)
                 IN  [j \in 1..Len(judges) |->
                        [judge |-> judges[j],
                         violation |-> violations[i],
                         document |-> doc.filename]]
            ELSE <<>>])
        actors == Distinct([a \in 1..Len(before) |-> before[a].key]
                           \o [e \in 1..Len(entries) |-> entries[e].judge])
        of(judge) == SelectSeq(entries, LAMBDA e : e.judge = judge)
        old(judge) == IF judge \in Keys(before)
                      THEN Get(before, judge)
                      ELSE [type |-> "judge", violations |-> <<>>,
                            documents |-> PyList({}), severity_score |-> 0]
    IN  [case_data EXCEPT !.actor_tracking =
            [a \in 1..Len(actors) |->
               [key |-> actors[a],
                value |->
                  [type |-> "judge",
                   violations |-> old(actors[a]).violations
                                  \o [e \in 1..Len(of(actors[a])) |->
                                        of(actors[a])[e].violation],
                   documents |-> PyList(old(actors[a]).documents.members \cup
                                        {of(actors[a])[e].document :
                                           e \in 1..Len(of(actors[a]))}),
                   severity_score |-> old(actors[a]).severity_score +
                     SumSeq([e \in 1..Len(of(actors[a])) |->
                               actor_severity_score(of(actors[a])[e].violation)])]]]
            \o <<>>]

\* the mutant of track_repeat_actors that counts every violation as 1
track_repeat_actors_unweighted(case_data) ==
    LET documents == case_data.documents
        violations == case_data.violations
        owned(v) == IF "document_hash" \in DOMAIN v
                    THEN v.document_hash \in Keys(documents)
                    ELSE FALSE
        entries == ConcatAll([i \in 1..Len(violations) |->
            IF owned(violations[i])
            THEN LET doc == Get(documents, violations[i].document_hash)
                     judges == JudgesOf(doc.legal_analysis)
                 IN  [j \in 1..Len(judges) |->
                        [judge |-> judges[j],
                         violation |-> violations[i],
                         document |-> doc.filename]]
            ELSE <<>>])
        actors == Distinct([e \in 1..Len(entries) |-> entries[e].judge])
        of(judge) == SelectSeq(entries, LAMBDA e : e.judge = judge)
    IN  [case_data EXCEPT !.actor_tracking =
            [a \in 1..Len(actors) |->
               [key |-> actors[a],
                value |->
                  [type |-> "judge",
                   violations |-> [e \in 1..Len(of(actors[a])) |->
                                     of(actors[a])[e].violation] \o <<>>,
                   documents |-> PyList({of(actors[a])[e].document :
                                           e \in 1..Len(of(actors[a]))}),
                   severity_score |-> Len(of(actors[a]))]]]
            \o <<>>]

\* the mutant of track_repeat_actors that charges a violation of a document
\* not in the case to the first document of the case
track_repeat_actors_first_document(case_data) ==
    LET documents == case_data.documents
        violations == case_data.violations
        owned(v) == Len(documents) > 0
        hash_of(v) == IF "document_hash" \in DOMAIN v
                      THEN (IF v.document_hash \in Keys(documents)
                            THEN v.document_hash
                            ELSE documents[1].key)
                      ELSE documents[1].key
        \* one entry per violation and judge of its document, in loop order
        entries == ConcatAll([i \in 1..Len(violations) |->
            IF owned(violations[i])
            THEN LET doc == Get(documents, hash_of(violations[i]))
                     judges == JudgesOf(doc.legal_analysis)
                 IN  [j \in 1..Len(judges) |->
                        [judge |-> judges[j],
                         violation |-> violations[i],
                         document |-> doc.filename]]
            ELSE <<>>])
        actors == Distinct([e \in 1..Len(entries) |-> entries[e].judge])
        of(judge) == SelectSeq(entries, LAMBDA e : e.judge = judge)
    IN  [case_data EXCEPT !.actor_tracking =
            [a \in 1..Len(actors) |->
               [key |-> actors[a],
                value |->
                  [type |-> "judge",
                   violations |-> [e \in 1..Len(of(actors[a])) |->
                                     of(actors[a])[e].violation] \o <<>>,
                   documents |-> PyList({of(actors[a])[e].document :
                                           e \in 1..Len(of(actors[a]))}),
                   severity_score |->
                     SumSeq([e \in 1..Len(of(actors[a])) |->
                               actor_severity_score(of(actors[a])[e].violation)])]]]
            \o <<>>]

\* track_repeat_actors: the case with its actor tracking replaced
track_repeat_actors(case_data) ==
    LET documents == case_data.documents
        violations == case_data.violations
        owned(v) == IF "document_hash" \in DOMAIN v
                    THEN v.document_hash \in Keys(documents)
                    ELSE FALSE
        \* one entry per violation and judge of its document, in loop order
        entries == ConcatAll([i \in 1..Len(violations) |->
            IF owned(violations[i])
            THEN LET doc == Get(documents, violations[i].document_hash)
                     judges == JudgesOf(doc.legal_analysis)
                 IN  [j \in 1..Len(judges) |->
                        [judge |-> judges[j],
                         violation |-> violations[i],
                         document |-> doc.filename]]
            ELSE <<>>])
        actors == Distinct([e \in 1..Len(entries) |-> entries[e].judge])
        of(judge) == SelectSeq(entries, LAMBDA e : e.judge = judge)
    IN  [case_data EXCEPT !.actor_tracking =
            [a \in 1..Len(actors) |->
               [key |-> actors[a],
                value |->
                  [type |-> "judge",
                   violations |-> [e \in 1..Len(of(actors[a])) |->
                                     of(actors[a])[e].violation] \o <<>>,
                   documents |-> PyList({of(actors[a])[e].document :
                                           e \in 1..Len(of(actors[a]))}),
                   severity_score |->
                     SumSeq([e \in 1..Len(of(actors[a])) |->
                               actor_severity_score(of(actors[a])[e].violation)])]]]
            \o <<>>]

\* _prepare_for_serialization: every set among the entities becomes a list
_prepare_for_serialization(data) ==
    IF "entities" \in DOMAIN data
    THEN [data EXCEPT !.entities =
            [kind \in DOMAIN data.entities |->
               IF data.entities[kind].py = "set"
               THEN PyList(data.entities[kind].members)
               ELSE data.entities[kind]] @@ <<>>]
    ELSE data

\* what json.dump(data, default=str) writes: the datetime of an event, which
\* JSON does not know, goes through str; the date of an event of a loaded
\* case is a string already
json_dump(data) ==
    IF "timeline" \in DOMAIN data
    THEN [data EXCEPT !.timeline =
            [i \in 1..Len(data.timeline) |->
               [data.timeline[i] EXCEPT !.date =
                   IF @ = None \/ "str" \in DOMAIN @ THEN @
                   ELSE [str |-> str_datetime(@)]]] \o <<>>]
    ELSE data

\* save_case_session: the file written, and the case in memory afterwards.
\* case_data.copy() is a shallow copy, so the entities dict whose sets are
\* replaced by lists is the one of the case in memory.
saved_file(case_data) == json_dump(_prepare_for_serialization(case_data))

case_after_save(case_data) == _prepare_for_serialization(case_data)

\* the mutant of _prepare_from_serialization that leaves the lists as json.load
\* made them
_prepare_from_serialization_lists(data) == data

\* _prepare_from_serialization: every list among the entities becomes a set
_prepare_from_serialization(data) ==
    IF "entities" \in DOMAIN data
    THEN [data EXCEPT !.entities =
            [kind \in DOMAIN data.entities |->
               IF data.entities[kind].py = "list"
               THEN PySet(data.entities[kind].members)
               ELSE data.entities[kind]] @@ <<>>]
    ELSE data

\* a file that is no JSON text, and what json.load raises on it
Unparseable == [text |-> "not JSON"]

JSONDecodeError == [raised |-> "JSONDecodeError"]

\* load_case_session: None without a file of that id.  json.load gives back
\* the dicts, lists, strings and numbers json.dump wrote, so an event's date
\* stays the string str made of it; nothing is asked of the dict but its
\* entities, if it has any.
load_case_session(files, case_id) ==
    IF case_id \in DOMAIN files
    THEN (IF files[case_id] = Unparseable
          THEN JSONDecodeError
          ELSE _prepare_from_serialization(files[case_id]))
    ELSE None

-----------------------------------------------------------------------------
(* ViolationDetector.analyze_timeline_violations *)

\* the days two adjacent events may lie apart
ExcessiveDelayDays == 180

\* the mutant of analyze_timeline_violations that flags a delay of the limit
analyze_timeline_at_limit(timeline) ==
    IF Len(timeline) < 2 THEN <<>>
    ELSE ConcatAll([i \in 1..Len(timeline) |->
           IF i = 1 THEN <<>>
           ELSE LET current_event == timeline[i]
                    previous_event == timeline[i - 1]
                IN  IF current_event.date # None /\ previous_event.date # None
                    THEN LET days == DaysBetween(previous_event.date, current_event.date)
                         IN  IF days >= ExcessiveDelayDays
                             THEN << [type |-> "excessive_delay",
                                      severity |-> "medium",
                                      severity_score |-> 2,
                                      description |-> <<"Excessive delay (", days,
                                                        " days) between events">>,
                                      context |-> <<"From ", previous_event.document,
                                                    " to ", current_event.document>>,
                                      time_difference |-> days,
                                      events |-> <<previous_event, current_event>>] >>
                             ELSE <<>>
                    ELSE <<>>])

\* what the difference of two dates raises when one of them is a string
TypeError == [raised |-> "TypeError"]

\* the date is the string json.load gives back for a date json.dump wrote
\* with default=str
IsString(date) == "str" \in DOMAIN date

\* analyze_timeline_violations; the subtraction raises on the first pair of
\* adjacent events with dates of which one is a string
analyze_timeline_violations(timeline) ==
    IF Len(timeline) < 2 THEN <<>>
    ELSE IF \E i \in 2..Len(timeline) :
               /\ timeline[i].date # None /\ timeline[i - 1].date # None
               /\ IsString(timeline[i].date) \/ IsString(timeline[i - 1].date)
    THEN TypeError
    ELSE ConcatAll([i \in 1..Len(timeline) |->
           IF i = 1 THEN <<>>
           ELSE LET current_event == timeline[i]
                    previous_event == timeline[i - 1]
                IN  IF current_event.date # None /\ previous_event.date # None
                    THEN LET days == DaysBetween(previous_event.date, current_event.date)
                         IN  IF days > ExcessiveDelayDays
                             THEN << [type |-> "excessive_delay",
                                      severity |-> "medium",
                                      severity_score |-> 2,
                                      description |-> <<"Excessive delay (", days,
                                                        " days) between events">>,
                                      context |-> <<"From ", previous_event.document,
                                                    " to ", current_event.document>>,
                                      time_difference |-> days,
                                      events |-> <<previous_event, current_event>>] >>
                             ELSE <<>>
                    ELSE <<>>])

-----------------------------------------------------------------------------
(* The documents that are uploaded *)

\* ORDER, Case: CV-101. Judge Smith: a due process violation on 01/15/2023. Missed hearing; due process violation again, 02/30/2023.
TextA ==
    << "O", "R", "D", "E", "R", ",", " ", "C", "a", "s", "e", ":", " ", "C",
       "V", "-", "1", "0", "1", ".", " ", "J", "u", "d", "g", "e", " ", "S",
       "m", "i", "t", "h", ":", " ", "a", " ", "d", "u", "e", " ", "p", "r",
       "o", "c", "e", "s", "s", " ", "v", "i", "o", "l", "a", "t", "i", "o",
       "n", " ", "o", "n", " ", "0", "1", "/", "1", "5", "/", "2", "0", "2",
       "3", ".", " ", "M", "i", "s", "s", "e", "d", " ", "h", "e", "a", "r",
       "i", "n", "g", ";", " ", "d", "u", "e", " ", "p", "r", "o", "c", "e",
       "s", "s", " ", "v", "i", "o", "l", "a", "t", "i", "o", "n", " ", "a",
       "g", "a", "i", "n", ",", " ", "0", "2", "/", "3", "0", "/", "2", "0",
       "2", "3", "." >>

\* CPS report, Case: CV-101. Hon. Smith. Visitation denied by CPS on June 3, 2022.\nProcedural error noted 11/28/21, procedural error repeated.
TextB ==
    << "C", "P", "S", " ", "r", "e", "p", "o", "r", "t", ",", " ", "C", "a",
       "s", "e", ":", " ", "C", "V", "-", "1", "0", "1", ".", " ", "H", "o",
       "n", ".", " ", "S", "m", "i", "t", "h", ".", " ", "V", "i", "s", "i",
       "t", "a", "t", "i", "o", "n", " ", "d", "e", "n", "i", "e", "d", " ",
       "b", "y", " ", "C", "P", "S", " ", "o", "n", " ", "J", "u", "n", "e",
       " ", "3", ",", " ", "2", "0", "2", "2", ".", "\n", "P", "r", "o", "c",
       "e", "d", "u", "r", "a", "l", " ", "e", "r", "r", "o", "r", " ", "n",
       "o", "t", "e", "d", " ", "1", "1", "/", "2", "8", "/", "2", "1", ",",
       " ", "p", "r", "o", "c", "e", "d", "u", "r", "a", "l", " ", "e", "r",
       "r", "o", "r", " ", "r", "e", "p", "e", "a", "t", "e", "d", "." >>

\* Motion to compel. Filing error in the record of 06/01/2021, Nov 29, 2021.
TextC ==
    << "M", "o", "t", "i", "o", "n", " ", "t", "o", " ", "c", "o", "m", "p",
       "e", "l", ".", " ", "F", "i", "l", "i", "n", "g", " ", "e", "r", "r",
       "o", "r", " ", "i", "n", " ", "t", "h", "e", " ", "r", "e", "c", "o",
       "r", "d", " ", "o", "f", " ", "0", "6", "/", "0", "1", "/", "2", "0",
       "2", "1", ",", " ", "N", "o", "v", " ", "2", "9", ",", " ", "2", "0",
       "2", "1", "." >>

\* The sample documents: the text extracted from the file, and what
\* extract_legal_entities finds in that text, each kind as the set that
\* list(set(...)) is made from.  A date string comes with its lexical shape.
SampleDocuments ==
    [A |-> [text |-> TextA,
            found |-> [case_numbers |-> {"CV-101"},
                       dates |-> {NumericDate("01/15/2023", "/", Digits(1, 2),
                                              Digits(15, 2), Digits(2023, 4)),
                                  NumericDate("02/30/2023", "/", Digits(2, 2),
                                              Digits(30, 2), Digits(2023, 4))},
                       judge_names |-> {"Smith"},
                       violations |-> {"due process violation"}]],
     B |-> [text |-> TextB,
            found |-> [case_numbers |-> {"CV-101"},
                       dates |-> {NamedDate("June 3, 2022", 6, {"B"}, TRUE,
                                            Digits(3, 1), Digits(2022, 4)),
                                  NumericDate("11/28/21", "/", Digits(11, 2),
                                              Digits(28, 2), Digits(21, 2))},
                       judge_names |-> {"Smith"},
                       custody_terms |-> {"Visitation"},
                       cps_terms |-> {"CPS"}]],
     C |-> [text |-> TextC,
            found |-> [dates |-> {NumericDate("06/01/2021", "/", Digits(6, 2),
                                              Digits(1, 2), Digits(2021, 4)),
                                  NamedDate("Nov 29, 2021", 11, {"b"}, TRUE,
                                            Digits(29, 2), Digits(2021, 4))},
                       motions |-> {"Motion to compel"}]]]

\* the files the uploader can hand over: a.pdf and a-copy.pdf hold the same
\* bytes under two names
UploadedFiles ==
    { [name |-> "a.pdf", content |-> "A"],
      [name |-> "a-copy.pdf", content |-> "A"],
      [name |-> "b.pdf", content |-> "B"],
      [name |-> "c.pdf", content |-> "C"] }

\* calculate_pdf_hash: the md5 of the file's bytes
calculate_pdf_hash(uploaded_file) ==
    CASE uploaded_file.content = "A" -> "md5-of-A"
      [] uploaded_file.content = "B" -> "md5-of-B"
      [] uploaded_file.content = "C" -> "md5-of-C"

\* the maps extract_legal_entities can return for a document: one per ordering
\* of each kind's matches
RECURSIVE Listings(_, _)
Listings(found, kinds) ==
    IF kinds = {} THEN {<<>>}
    ELSE LET kind == CHOOSE k \in kinds : TRUE
         IN  {(kind :> order) @@ rest :
                 order \in Orderings(found[kind]),
                 rest \in Listings(found, kinds \ {kind})}

extract_legal_entities(doc) == Listings(doc.found, DOMAIN doc.found)

\* The regular expressions of legal_patterns, compiled with re.IGNORECASE:
\* a letter in either case, \s+, \s*, x?, (a|b), [class]+ and the start of
\* group 1.  MatchGroup is re.match at a position: the end of the match and
\* the start of the group, or NoMatch; the first alternative, the longest
\* run and the taken option come first, each given up when what follows fails.
LitI(c) == [k |-> "liti", c |-> c]

WS0 == [k |-> "ws0"]

Alt(subs) == [k |-> "alt", subs |-> subs]

Cls(letters, digits, spaces, others) ==
    [k |-> "cls", letters |-> letters, digits |-> digits, spaces |-> spaces,
     others |-> others]

Group == [k |-> "group"]

\* a word, its letters in either case
WI(cs) == [i \in 1..Len(cs) |-> LitI(cs[i])]

LowerLetters ==
    {"a", "b", "c", "d", "e", "f", "g", "h", "i", "j", "k", "l", "m", "n", "o",
     "p", "q", "r", "s", "t", "u", "v", "w", "x", "y", "z"}

InClass(cls, c) ==
    \/ cls.letters /\ LowerChar(c) \in LowerLetters
    \/ cls.digits /\ c \in {"0", "1", "2", "3", "4", "5", "6", "7", "8", "9"}
    \/ cls.spaces /\ c \in WhiteSpace
    \/ c \in cls.others

\* the length of the run of characters of the class that starts at pos
RECURSIVE ClassRun(_, _, _)
ClassRun(cls, s, pos) ==
    IF pos < Len(s) /\ InClass(cls, s[pos + 1]) THEN 1 + ClassRun(cls, s, pos + 1) ELSE 0

NoMatch == [end |-> -1, group |-> -1]

RECURSIVE MatchGroup(_, _, _, _)
RECURSIVE TryRun(_, _, _, _, _, _)
RECURSIVE TryAlt(_, _, _, _, _, _)
MatchGroup(items, s, pos, group) ==
    IF Len(items) = 0 THEN [end |-> pos, group |-> group]
    ELSE LET it == Head(items)
             rest == Tail(items)
         IN  CASE it.k = "liti" ->
                    IF pos < Len(s) /\ LowerChar(s[pos + 1]) = it.c
                    THEN MatchGroup(rest, s, pos + 1, group) ELSE NoMatch
               [] it.k = "ws" -> TryRun(rest, s, pos, group, WsRun(s, pos), 1)
               [] it.k = "ws0" -> TryRun(rest, s, pos, group, WsRun(s, pos), 0)
               [] it.k = "cls" -> TryRun(rest, s, pos, group, ClassRun(it, s, pos), 1)
               [] it.k = "opt" ->
                    LET taken == MatchGroup(it.sub \o rest, s, pos, group)
                    IN  IF taken # NoMatch THEN taken
                        ELSE MatchGroup(rest, s, pos, group)
               [] it.k = "alt" -> TryAlt(it.subs, 1, rest, s, pos, group)
               [] it.k = "group" -> MatchGroup(rest, s, pos, pos)

TryRun(rest, s, pos, group, n, least) ==
    IF n < least THEN NoMatch
    ELSE LET m == MatchGroup(rest, s, pos + n, group)
         IN  IF m # NoMatch THEN m ELSE TryRun(rest, s, pos, group, n - 1, least)

TryAlt(subs, i, rest, s, pos, group) ==
    IF i > Len(subs) THEN NoMatch
    ELSE LET m == MatchGroup(subs[i] \o rest, s, pos, group)
         IN  IF m # NoMatch THEN m ELSE TryAlt(subs, i + 1, rest, s, pos, group)

\* re.findall(pattern, s) for a pattern with one group: the text of the group
\* in each match, the matches taken left to right without overlap
RECURSIVE FindAllFrom(_, _, _)
FindAllFrom(pattern, s, from) ==
    LET starts == {i \in from..(Len(s) - 1) : MatchGroup(pattern, s, i, -1) # NoMatch}
    IN  IF starts = {} THEN <<>>
        ELSE LET m == MatchGroup(pattern, s, Minimum(starts), -1)
             IN  <<Slice(s, m.group, m.end)>> \o FindAllFrom(pattern, s, m.end)

findall(pattern, s) == FindAllFrom(pattern, s, 0)

\* legal_patterns: the entries for case_numbers, deadlines, custody_terms and
\* cps_terms, in dict order
legal_patterns ==
  <<
    \* (?:Case|No\.|#)\s*:?\s*([A-Z0-9\-]+)
    [kind |-> "case_numbers",
     pattern |-> << Alt(<< WI(<<"c","a","s","e">>), WI(<<"n","o",".">>), WI(<<"#">>) >>), WS0, Opt(WI(<<":">>)), WS0, Group,
                    Cls(TRUE, TRUE, FALSE, {"-"}) >>],
    \* (?:DEADLINE|DUE\s+BY|MUST\s+BE\s+FILED)\s*:?\s*([A-Z0-9\s,]+)
    [kind |-> "deadlines",
     pattern |-> << Alt(<< WI(<<"d","e","a","d","l","i","n","e">>),
                           WI(<<"d","u","e">>) \o <<WS>> \o WI(<<"b","y">>),
                           WI(<<"m","u","s","t">>) \o <<WS>> \o WI(<<"b","e">>) \o <<WS>> \o WI(<<"f","i","l","e","d">>) >>),
                    WS0, Opt(WI(<<":">>)), WS0, Group, Cls(TRUE, TRUE, TRUE, {","}) >>],
    \* (CUSTODY|VISITATION|PARENTING\s+TIME|CHILD\s+SUPPORT)
    [kind |-> "custody_terms",
     pattern |-> << Group,
                    Alt(<< WI(<<"c","u","s","t","o","d","y">>), WI(<<"v","i","s","i","t","a","t","i","o","n">>),
                           WI(<<"p","a","r","e","n","t","i","n","g">>) \o <<WS>> \o WI(<<"t","i","m","e">>),
                           WI(<<"c","h","i","l","d">>) \o <<WS>> \o WI(<<"s","u","p","p","o","r","t">>) >>) >>],
    \* (CPS|CHILD\s+PROTECTIVE\s+SERVICES|DHR|DEPARTMENT\s+OF\s+HUMAN\s+RESOURCES)
    [kind |-> "cps_terms",
     pattern |-> << Group,
                    Alt(<< WI(<<"c","p","s">>),
                           WI(<<"c","h","i","l","d">>) \o <<WS>> \o WI(<<"p","r","o","t","e","c","t","i","v","e">>) \o <<WS>> \o WI(<<"s","e","r","v","i","c","e","s">>),
                           WI(<<"d","h","r">>),
                           WI(<<"d","e","p","a","r","t","m","e","n","t">>) \o <<WS>> \o WI(<<"o","f">>) \o <<WS>> \o WI(<<"h","u","m","a","n">>)
                              \o <<WS>> \o WI(<<"r","e","s","o","u","r","c","e","s">>) >>) >>]
  >>

\* extract_legal_entities on a text, for the entries above: the maps it can
\* return, one for each order list(set(...)) can give the lists
extract_legal_entities_of(t) ==
    LET matches == [e \in 1..Len(legal_patterns) |-> findall(legal_patterns[e].pattern, t)]
                      \o <<>>
        matched == {e \in 1..Len(legal_patterns) : Len(matches[e]) > 0}
        clean == [kind \in {legal_patterns[e].kind : e \in matched} |->
                    LET e == CHOOSE e \in matched : legal_patterns[e].kind = kind
                    IN  {Strip(matches[e][i]) : i \in {i \in 1..Len(matches[e]) :
                                                          Strip(matches[e][i]) # <<>>}}]
                    @@ <<>>
    IN  Listings(clean, DOMAIN clean)

\* What process_uploaded_pdf computes from the text alone, for each sample
\* document: the analysis before the entity lists are put in, and the list
\* detect_violations returns for the text and the type found
TextAnalysis(doc) ==
    LET analysis == comprehensive_legal_analysis(doc.text, <<>>)
    IN  [analysis |-> analysis,
         advanced_violations |-> detect_violations(doc.text, TypeOf(analysis))]

TextAnalyses ==
    [A |-> TextAnalysis(SampleDocuments.A),
     B |-> TextAnalysis(SampleDocuments.B),
     C |-> TextAnalysis(SampleDocuments.C)]

\* the names a new case can be given
CaseNames == {"Smith v. State CPS"}

\* the id create_case_session makes for the n-th case: the ids differ, the
\* hashed text holding the time of creation
new_case_id(n) == <<"case", n>>

-----------------------------------------------------------------------------
(* The operations that ask the language model: src/legal_analyzer.py,
   src/violation_detector.py, src/report_generator.py *)

\* What self.client.chat.completions.create(...) does when called: it returns
\* a message whose content json.loads accepts, one it does not accept, or it
\* raises
ClientOutcomes ==
    { [kind |-> "json", content |-> "{\"findings\": []}"],
      [kind |-> "text", content |-> "No flaws found."],
      [kind |-> "raises", content |-> "Connection error."] }

\* Each operation is given with the number of calls it makes on the client:
\* [returned |-> what it returns, client_calls |-> the calls made]

\* the mutant of find_procedural_flaws that asks the model in development
\* mode too
find_procedural_flaws_asking(t, development_mode, outcome) ==
    [returned |->
        CASE outcome.kind = "json" -> [json |-> outcome.content]
          [] outcome.kind = "text" -> [analysis |-> outcome.content, format |-> "text"]
          [] outcome.kind = "raises" ->
                [error |-> <<"Legal analysis failed: ", outcome.content>>,
                 recommendations |-> <<"Check API configuration and try again">>],
     client_calls |-> 1]

\* the mutant of find_procedural_flaws that answers a failed call with an
\* empty analysis
find_procedural_flaws_silent(t, development_mode, outcome) ==
    IF development_mode
    THEN [returned |->
            [procedural_analysis |-> "[DEV MODE] Procedural analysis would identify timeline violations, notice issues, and due process concerns",
             potential_flaws |-> <<"Development mode active - no actual analysis performed">>,
             recommendations |-> <<"Enable production mode for full legal analysis">>],
          client_calls |-> 0]
    ELSE [returned |->
            CASE outcome.kind = "json" -> [json |-> outcome.content]
              [] outcome.kind = "text" -> [analysis |-> outcome.content, format |-> "text"]
              [] outcome.kind = "raises" -> [analysis |-> "", format |-> "text"],
          client_calls |-> 1]

\* LegalDocumentAnalyzer.find_procedural_flaws
find_procedural_flaws(t, development_mode, outcome) ==
    IF development_mode
    THEN [returned |->
            [procedural_analysis |-> "[DEV MODE] Procedural analysis would identify timeline violations, notice issues, and due process concerns",
             potential_flaws |-> <<"Development mode active - no actual analysis performed">>,
             recommendations |-> <<"Enable production mode for full legal analysis">>],
          client_calls |-> 0]
    ELSE [returned |->
            CASE outcome.kind = "json" -> [json |-> outcome.content]
              [] outcome.kind = "text" -> [analysis |-> outcome.content, format |-> "text"]
              [] outcome.kind = "raises" ->
                    [error |-> <<"Legal analysis failed: ", outcome.content>>,
                     recommendations |-> <<"Check API configuration and try again">>],
          client_calls |-> 1]

\* ViolationDetector.advanced_violation_analysis
advanced_violation_analysis(t, development_mode, outcome) ==
    IF development_mode
    THEN [returned |->
            [advanced_violations |-> "[DEV MODE] Advanced AI violation analysis disabled",
             patterns_detected |-> <<"Development mode active">>,
             recommendations |-> <<"Enable production mode for AI-powered violation detection">>],
          client_calls |-> 0]
    ELSE [returned |->
            CASE outcome.kind = "json" -> [json |-> outcome.content]
              [] outcome.kind = "text" -> [analysis |-> outcome.content, format |-> "text"]
              [] outcome.kind = "raises" ->
                    [error |-> <<"Advanced violation analysis failed: ", outcome.content>>,
                     recommendations |-> <<"Check API configuration and try again">>],
          client_calls |-> 1]

\* ReportGenerator._generate_ai_analysis: the reply, or a line about the failure
_generate_ai_analysis(case_data, outcome) ==
    [returned |-> IF outcome.kind = "raises"
                  THEN <<"AI analysis unavailable: ", outcome.content>>
                  ELSE <<outcome.content>>,
     client_calls |-> 1]

\* ReportGenerator.generate_case_summary: of the report, the text between the
\* heading AI LEGAL ANALYSIS and the recommendations; the sections before and
\* after it ask nothing of the client
generate_case_summary(case_data, development_mode, outcome) ==
    IF ~development_mode
    THEN _generate_ai_analysis(case_data, outcome)
    ELSE [returned |-> <<"[Development Mode Active - AI analysis disabled to save tokens]">>,
          client_calls |-> 0]

\* ReportGenerator.generate_legal_brief_template
generate_legal_brief_template(case_data, development_mode, outcome) ==
    IF development_mode
    THEN [returned |-> <<"# LEGAL BRIEF TEMPLATE",
                         "[Development Mode Active - Legal brief generation disabled to save tokens]",
                         "Enable production mode to generate AI-powered legal brief templates based on your case violations and evidence.">>,
          client_calls |-> 0]
    ELSE [returned |-> IF outcome.kind = "raises"
                       THEN <<"# LEGAL BRIEF TEMPLATE - ERROR",
                              "An error occurred while generating the legal brief template: ",
                              outcome.content,
                              "Please check your API configuration and try again.">>
                       ELSE <<outcome.content>>,
          client_calls |-> 1]

-----------------------------------------------------------------------------
(* ReportGenerator: the listings of the reports *)

\* high_violations[:10], medium_violations[:10]
ViolationsListed == 10

\* sorted_actors[:10]
ActorsListed == 10

\* medium_violations[:5] of the briefing
BriefingListed == 5

\* d.get(k, default) on a record
GetField(d, k, default) == IF k \in DOMAIN d THEN d[k] ELSE default

\* [v for v in violations if v.get('severity') == severity]
OfSeverity(violations, severity) ==
    SelectSeq(violations, LAMBDA v : GetField(v, "severity", None) = severity)

\* sorted(..., key=severity_score, reverse=True) is stable: an item goes after
\* every item already placed whose score is greater or equal
RECURSIVE InsertActor(_, _)
InsertActor(sorted, item) ==
    IF Len(sorted) = 0 THEN <<item>>
    ELSE IF GetField(Head(sorted).value, "severity_score", 0)
                >= GetField(item.value, "severity_score", 0)
         THEN <<Head(sorted)>> \o InsertActor(Tail(sorted), item)
         ELSE <<item>> \o sorted

RECURSIVE SortActorsFrom(_, _)
SortActorsFrom(items, sorted) ==
    IF Len(items) = 0 THEN sorted
    ELSE SortActorsFrom(Tail(items), InsertActor(sorted, Head(items)))

\* the actors in the order the dict holds them
sorted_actors_unsorted(actor_tracking) == actor_tracking

sorted_actors(actor_tracking) == SortActorsFrom(actor_tracking, <<>>)

\* what the summary prints of one violation
listed_violation(violation) ==
    [title |-> GetField(violation, "description", GetField(violation, "type", "Unknown")),
     document |-> GetField(violation, "document_name", "Unknown"),
     context |-> Slice(GetField(violation, "context", <<>>), 0, 150)]

\* what the summary prints of one actor
listed_actor(item) ==
    [actor |-> item.key,
     type |-> GetField(item.value, "type", "unknown"),
     violation_count |-> Len(GetField(item.value, "violations", <<>>)),
     severity_score |-> GetField(item.value, "severity_score", 0),
     documents |-> Slice(GetField(item.value, "documents", <<>>), 0, 3)]

\* generate_case_summary: the violations and the actors the report lists, and
\* the case after the call
generate_case_summary_listing(case_data) ==
    LET violations == GetField(case_data, "violations", <<>>)
        actor_tracking == GetField(case_data, "actor_tracking", <<>>)
        high_violations == Slice(OfSeverity(violations, "high"), 0, ViolationsListed)
        medium_violations == Slice(OfSeverity(violations, "medium"), 0, ViolationsListed)
        actors == Slice(sorted_actors(actor_tracking), 0, ActorsListed)
    IN  [returned |->
            [high |-> [i \in 1..Len(high_violations) |-> listed_violation(high_violations[i])],
             medium |-> [i \in 1..Len(medium_violations) |->
                            listed_violation(medium_violations[i])],
             actors |-> [i \in 1..Len(actors) |-> listed_actor(actors[i])]],
         case_data |-> case_data]

\* generate_violation_briefing(case_data['violations'], case_data['case_name'])
generate_violation_briefing(case_data) ==
    LET violations == case_data.violations
        high_violations == OfSeverity(violations, "high")
        medium_violations == Slice(OfSeverity(violations, "medium"), 0, BriefingListed)
    IN  [returned |->
            [case_name |-> case_data.case_name,
             total |-> Len(violations),
             high |-> high_violations,
             medium |-> [i \in 1..Len(medium_violations) |->
                            [medium_violations[i] EXCEPT
                                !.context = Slice(@, 0, 200)]]],
         case_data |-> case_data]

\* _calculate_risk_level
_calculate_risk_level(violations) ==
    LET high_count == Len(OfSeverity(violations, "high"))
        medium_count == Len(OfSeverity(violations, "medium"))
    IN  IF Len(violations) = 0 THEN "Low"
        ELSE IF high_count >= 3 THEN "Critical"
        ELSE IF high_count >= 1 \/ medium_count >= 5 THEN "High"
        ELSE IF medium_count >= 2 THEN "Medium"
        ELSE "Low"

\* export_case_data; the dates of case_info are left out
export_case_data(case_data) ==
    LET violations == GetField(case_data, "violations", <<>>)
        documents == GetField(case_data, "documents", <<>>)
        entities == GetField(case_data, "entities", <<>>)
    IN  [returned |->
            [case_info |-> [case_id |-> GetField(case_data, "case_id", <<>>),
                            case_name |-> GetField(case_data, "case_name", <<>>)],
             documents |-> [i \in 1..Len(documents) |->
                 [hash |-> documents[i].key,
                  filename |-> GetField(documents[i].value, "filename", "Unknown"),
                  violation_count |->
                      Len(SelectSeq(violations, LAMBDA v :
                            GetField(v, "document_hash", None) = documents[i].key))]],
             violations |-> violations,
             timeline |-> GetField(case_data, "timeline", <<>>),
             entities |-> [kind \in DOMAIN entities |->
                             IF entities[kind].py = "set"
                             THEN PyList(entities[kind].members)
                             ELSE entities[kind]] @@ <<>>,
             actor_tracking |-> GetField(case_data, "actor_tracking", <<>>),
             statistics |-> [total_documents |-> Len(documents),
                             total_violations |-> Len(violations),
                             risk_level |-> _calculate_risk_level(violations)]],
         case_data |-> case_data]

-----------------------------------------------------------------------------
(* GlobalSearch: src/global_search.py *)

\* self.legal_patterns of GlobalSearch, in dict order; each pattern with its
\* source text, which the results carry
search_patterns ==
  <<
    [category |-> "due_process",
     patterns |-> <<
          [regex |-> "due\\s+process",
           items |-> WI(<<"d","u","e">>) \o <<WS>> \o WI(<<"p","r","o","c","e","s","s">>)],
          [regex |-> "procedural\\s+due\\s+process",
           items |-> WI(<<"p","r","o","c","e","d","u","r","a","l">>) \o <<WS>> \o WI(<<"d","u","e">>) \o <<WS>> \o WI(<<"p","r","o","c","e","s","s">>)],
          [regex |-> "substantive\\s+due\\s+process",
           items |-> WI(<<"s","u","b","s","t","a","n","t","i","v","e">>) \o <<WS>> \o WI(<<"d","u","e">>) \o <<WS>> \o WI(<<"p","r","o","c","e","s","s">>)],
          [regex |-> "fourteenth\\s+amendment",
           items |-> WI(<<"f","o","u","r","t","e","e","n","t","h">>) \o <<WS>> \o WI(<<"a","m","e","n","d","m","e","n","t">>)]
     >>],
    [category |-> "constitutional",
     patterns |-> <<
          [regex |-> "constitutional\\s+(?:rights?|violation)",
           items |-> WI(<<"c","o","n","s","t","i","t","u","t","i","o","n","a","l">>) \o <<WS>> \o <<Alt(<<WI(<<"r","i","g","h","t">>) \o <<Opt(<<LitI("s")>>)>>, WI(<<"v","i","o","l","a","t","i","o","n">>)>>)>>],
          [regex |-> "first\\s+amendment",
           items |-> WI(<<"f","i","r","s","t">>) \o <<WS>> \o WI(<<"a","m","e","n","d","m","e","n","t">>)],
          [regex |-> "fourth\\s+amendment",
           items |-> WI(<<"f","o","u","r","t","h">>) \o <<WS>> \o WI(<<"a","m","e","n","d","m","e","n","t">>)],
          [regex |-> "fifth\\s+amendment",
           items |-> WI(<<"f","i","f","t","h">>) \o <<WS>> \o WI(<<"a","m","e","n","d","m","e","n","t">>)],
          [regex |-> "fourteenth\\s+amendment",
           items |-> WI(<<"f","o","u","r","t","e","e","n","t","h">>) \o <<WS>> \o WI(<<"a","m","e","n","d","m","e","n","t">>)]
     >>],
    [category |-> "custody_violations",
     patterns |-> <<
          [regex |-> "custody\\s+(?:violation|interference)",
           items |-> WI(<<"c","u","s","t","o","d","y">>) \o <<WS>> \o <<Alt(<<WI(<<"v","i","o","l","a","t","i","o","n">>), WI(<<"i","n","t","e","r","f","e","r","e","n","c","e">>)>>)>>],
          [regex |-> "parental\\s+alienation",
           items |-> WI(<<"p","a","r","e","n","t","a","l">>) \o <<WS>> \o WI(<<"a","l","i","e","n","a","t","i","o","n">>)],
          [regex |-> "denial\\s+of\\s+(?:access|visitation)",
           items |-> WI(<<"d","e","n","i","a","l">>) \o <<WS>> \o WI(<<"o","f">>) \o <<WS>> \o <<Alt(<<WI(<<"a","c","c","e","s","s">>), WI(<<"v","i","s","i","t","a","t","i","o","n">>)>>)>>],
          [regex |-> "contempt\\s+of\\s+court",
           items |-> WI(<<"c","o","n","t","e","m","p","t">>) \o <<WS>> \o WI(<<"o","f">>) \o <<WS>> \o WI(<<"c","o","u","r","t">>)]
     >>],
    [category |-> "cps_violations",
     patterns |-> <<
          [regex |-> "false\\s+allegations?",
           items |-> WI(<<"f","a","l","s","e">>) \o <<WS>> \o WI(<<"a","l","l","e","g","a","t","i","o","n">>) \o <<Opt(<<LitI("s")>>)>>],
          [regex |-> "malicious\\s+reporting",
           items |-> WI(<<"m","a","l","i","c","i","o","u","s">>) \o <<WS>> \o WI(<<"r","e","p","o","r","t","i","n","g">>)],
          [regex |-> "improper\\s+removal",
           items |-> WI(<<"i","m","p","r","o","p","e","r">>) \o <<WS>> \o WI(<<"r","e","m","o","v","a","l">>)],
          [regex |-> "safety\\s+plan\\s+violation",
           items |-> WI(<<"s","a","f","e","t","y">>) \o <<WS>> \o WI(<<"p","l","a","n">>) \o <<WS>> \o WI(<<"v","i","o","l","a","t","i","o","n">>)]
     >>],
    [category |-> "judicial_misconduct",
     patterns |-> <<
          [regex |-> "judicial\\s+(?:bias|misconduct|malpractice)",
           items |-> WI(<<"j","u","d","i","c","i","a","l">>) \o <<WS>> \o <<Alt(<<WI(<<"b","i","a","s">>), WI(<<"m","i","s","c","o","n","d","u","c","t">>), WI(<<"m","a","l","p","r","a","c","t","i","c","e">>)>>)>>],
          [regex |-> "conflict\\s+of\\s+interest",
           items |-> WI(<<"c","o","n","f","l","i","c","t">>) \o <<WS>> \o WI(<<"o","f">>) \o <<WS>> \o WI(<<"i","n","t","e","r","e","s","t">>)],
          [regex |-> "ex\\s+parte\\s+communication",
           items |-> WI(<<"e","x">>) \o <<WS>> \o WI(<<"p","a","r","t","e">>) \o <<WS>> \o WI(<<"c","o","m","m","u","n","i","c","a","t","i","o","n">>)],
          [regex |-> "prejudiced\\s+ruling",
           items |-> WI(<<"p","r","e","j","u","d","i","c","e","d">>) \o <<WS>> \o WI(<<"r","u","l","i","n","g">>)]
     >>]
  >>

\* re.search(pattern, s, re.IGNORECASE) finds a match
Searches(pattern, s) ==
    \E i \in 0..Len(s) : MatchGroup(pattern, s, i, -1) # NoMatch

\* re.finditer(pattern, s, re.IGNORECASE): the spans of the matches, left to
\* right without overlap; no pattern of the table matches the empty string
RECURSIVE FindSpansFrom(_, _, _)
FindSpansFrom(pattern, s, from) ==
    LET starts == {i \in from..(Len(s) - 1) : MatchGroup(pattern, s, i, -1) # NoMatch}
    IN  IF starts = {} THEN <<>>
        ELSE LET start == Minimum(starts)
                 m == MatchGroup(pattern, s, start, -1)
             IN  <<[start |-> start, end |-> m.end]>> \o FindSpansFrom(pattern, s, m.end)

\* s.find(sub, start) for 0 <= start: the first place from start on where sub
\* stands, -1 without one; the empty string stands at every place up to len(s)
find(s, sub, start) ==
    LET places == {i \in start..(Len(s) - Len(sub)) : Slice(s, i, i + Len(sub)) = sub}
    IN  IF places = {} THEN -1 ELSE Minimum(places)

\* the text a search reads of a document: its extracted_text, '' without one
extracted_text(doc_info) ==
    IF "document_analysis" \in DOMAIN doc_info
    THEN GetField(doc_info.document_analysis, "extracted_text", <<>>)
    ELSE <<>>

\* the result _text_search appends for a match at pos; relevance scores are
\* kept in tenths
text_result(document, t, query, pos) ==
    [document_hash |-> document.key,
     document_name |-> GetField(document.value, "filename", "Unknown"),
     match_type |-> "text",
     context |-> Strip(Slice(t, Max(0, pos - 100), Min(Len(t), pos + Len(query) + 100))),
     position |-> pos,
     query |-> query,
     relevance_score |-> 10]

\* start_pos = pos + len(query), where the while loop of _text_search resumes
text_search_resume(pos, query) == pos + Len(query)

\* _pattern_search
_pattern_search(documents, query) ==
    LET query_lower == Lower(query)
        matching_patterns ==
            ConcatAll([c \in 1..Len(search_patterns) |->
                IF \E p \in 1..Len(search_patterns[c].patterns) :
                      Searches(search_patterns[c].patterns[p].items, query_lower)
                THEN search_patterns[c].patterns ELSE <<>>])
    IN  ConcatAll([d \in 1..Len(documents) |->
          LET t == extracted_text(documents[d].value)
          IN  ConcatAll([p \in 1..Len(matching_patterns) |->
                LET matches == FindSpansFrom(matching_patterns[p].items, t, 0)
                IN  [m \in 1..Len(matches) |->
                       [document_hash |-> documents[d].key,
                        document_name |-> GetField(documents[d].value, "filename", "Unknown"),
                        match_type |-> "pattern",
                        context |-> Strip(Slice(t, Max(0, matches[m].start - 100),
                                                Min(Len(t), matches[m].end + 100))),
                        pattern |-> matching_patterns[p].regex,
                        matched_text |-> Slice(t, matches[m].start, matches[m].end),
                        query |-> query,
                        relevance_score |-> 20]]])])

\* What the client does in a semantic search, the same for every document of
\* the search: it returns JSON with a passage of relevance 0.8, a text that
\* is no JSON and holds the word 'relevant', one that does not, or it raises
SearchOutcomes ==
    { [kind |-> "json", content |-> <<"p","a","s","s","a","g","e">>],
      [kind |-> "text", content |-> <<"r","e","l","e","v","a","n","t">>],
      [kind |-> "text", content |-> <<"n","o","t","h","i","n","g">>],
      [kind |-> "raises", content |-> <<"C","o","n","n","e","c","t","i","o","n">>] }

\* _semantic_search
_semantic_search(documents, query, development_mode, outcome) ==
    IF development_mode
    THEN << [document_hash |-> "dev_mode",
             document_name |-> "Development Mode Active",
             match_type |-> "semantic",
             context |-> <<"[","D","E","V"," ","M","O","D","E","]">>,
             query |-> query,
             relevance_score |-> 5] >>
    ELSE LET asked == SelectSeq(documents,
                        LAMBDA d : Strip(Slice(extracted_text(d.value), 0, 3000)) # <<>>)
         IN  IF Len(asked) = 0 THEN <<>>
             ELSE IF outcome.kind = "raises"
             THEN << [document_hash |-> "error",
                      document_name |-> "Semantic Search Error",
                      match_type |-> "error",
                      context |-> outcome.content,
                      query |-> query,
                      relevance_score |-> 1] >>
             ELSE IF outcome.kind = "json"
             THEN [d \in 1..Len(asked) |->
                     [document_hash |-> asked[d].key,
                      document_name |-> GetField(asked[d].value, "filename", "Unknown"),
                      match_type |-> "semantic",
                      context |-> outcome.content,
                      query |-> query,
                      relevance_score |-> 24]]
             ELSE IF Contains(<<"r","e","l","e","v","a","n","t">>, Lower(outcome.content))
             THEN [d \in 1..Len(asked) |->
                     [document_hash |-> asked[d].key,
                      document_name |-> GetField(asked[d].value, "filename", "Unknown"),
                      match_type |-> "semantic",
                      context |-> Slice(outcome.content, 0, 200),
                      query |-> query,
                      relevance_score |-> 15]]
             ELSE <<>>

\* _deduplicate_search_results: the first result of each key
RECURSIVE DedupResultsFrom(_, _, _)
DedupResultsFrom(results, seen, deduplicated) ==
    IF Len(results) = 0 THEN deduplicated
    ELSE LET key == <<Head(results).document_hash, "_">>
                       \o Slice(Head(results).context, 0, 50)
         IN  IF key \notin seen
             THEN DedupResultsFrom(Tail(results), seen \cup {key},
                                   Append(deduplicated, Head(results)))
             ELSE DedupResultsFrom(Tail(results), seen, deduplicated)

_deduplicate_search_results(results) == DedupResultsFrom(results, {}, <<>>)

\* results.sort(key=relevance_score, reverse=True), a stable sort
RECURSIVE InsertResult(_, _)
InsertResult(sorted, r) ==
    IF Len(sorted) = 0 THEN <<r>>
    ELSE IF Head(sorted).relevance_score >= r.relevance_score
         THEN <<Head(sorted)>> \o InsertResult(Tail(sorted), r)
         ELSE <<r>> \o sorted

RECURSIVE SortResultsFrom(_, _)
SortResultsFrom(results, sorted) ==
    IF Len(results) = 0 THEN sorted
    ELSE SortResultsFrom(Tail(results), InsertResult(sorted, Head(results)))

\* what search_all_documents returns for the results of its searches; the
\* timestamp is left out
search_result(results, query, search_type) ==
    LET sorted == SortResultsFrom(results, <<>>)
    IN  [results |-> Slice(sorted, 0, 50),
         total_matches |-> Len(sorted),
         query |-> query,
         search_type |-> search_type]

-----------------------------------------------------------------------------
(* The state *)

VARIABLES
    \* ViolationDetector.detect_violations: its arguments, its local list
    \* `violations` before _deduplicate_violations, and what it returns
    text, document_type, scanned, returned, pc,
    \* st.session_state.case_data: the active case, None without one
    case_data,
    \* the files of case_sessions/, by case id
    case_files,
    \* the metadata files of the PDF cache, by pdf hash
    pdf_cache,
    \* the file process_uploaded_pdf was last given, None before
    uploaded_file,
    \* st.session_state.legal_analysis
    legal_analysis,
    \* the Case Timeline tab as last shown: the timeline and the
    \* timeline_violations computed from it, None before
    timeline_view,
    \* the calls of add_document_to_case, and of create_case_session, so far
    adds, cases_created,
    \* the pattern tables of the ViolationDetector object
    detector,
    \* the locals of the running GlobalSearch.search_all_documents, None when
    \* none runs
    search

detectVars == <<text, document_type, scanned, returned, pc>>

caseVars == <<case_data, case_files, pdf_cache, uploaded_file, legal_analysis,
              timeline_view, adds, cases_created, detector, search>>

vars == <<detectVars, caseVars>>

-----------------------------------------------------------------------------
(* The texts and type hints detect_violations is applied to *)

MaxPhrases == 2

Phrases ==
    << <<"d","u","e"," ","p","r","o","c","e","s","s"," ","v","i","o","l","a","t","i","o","n">>,
       <<"C","o","n","s","t","i","t","u","t","i","o","n","a","l"," "," ","v","i","o","l","a","t","i","o","n">>,
       <<"m","i","s","s","e","d"," ","h","e","a","r","i","n","g">>,
       <<"p","r","o","c","e","d","u","r","a","l"," ","e","r","r","o","r">>,
       <<"f","i","l","i","n","g"," ","e","r","r","o","r">>,
       <<"v","i","s","i","t","a","t","i","o","n"," ","d","e","n","i","e","d"," ","b","y"," ","D","H","R">> >>

FillerLen == 110

\* what separates two phrases: one blank, or more than a context radius of text
Gaps == << <<" ">>, <<" ">> \o [i \in 1..FillerLen |-> "x"] \o <<"\n">> >>

ScenarioText ==
    <<"T","h","e"," ","c","o","u","r","t"," ","f","o","u","n","d"," ","a"," ","d","u","e"," ","p","r","o","c","e","s","s"," ","v","i","o","l","a","t","i","o","n"," ","i","n"," ","d","e","n","y","i","n","g"," ","n","o","t","i","c","e","."," ","D","u","e"," ","p","r","o","c","e","s","s"," ","v","i","o","l","a","t","i","o","n"," ","o","c","c","u","r","r","e","d"," ","a","g","a","i","n"," ","h","e","r","e",".">>

\* two matches of one pattern whose contexts share their first 50 characters and
\* differ further on, then a match of another severity
LongTailText ==
    Phrases[1] \o Gaps[1] \o Phrases[1] \o Gaps[2] \o Phrases[5]

\* matches of every severity, from the general table and a sub-table, standing
\* in the text in another order than the tables list their types
MixedText ==
    Phrases[4] \o Gaps[1] \o Phrases[3] \o Gaps[1] \o Phrases[5] \o Gaps[1]
        \o Phrases[6] \o Gaps[1] \o Phrases[2]

TextOf(ps) == ConcatAll([i \in 1..Len(ps) |-> Gaps[ps[i].g] \o Phrases[ps[i].p]])

Texts ==
    {ScenarioText, LongTailText, MixedText} \cup
    {TextOf(ps) : ps \in UNION {[1..n -> [p : 1..Len(Phrases), g : 1..Len(Gaps)]]
                                  : n \in 0..MaxPhrases}}

Hints == { <<"o","r","d","e","r">>, <<"C","P","S">>, <<"c","u","s","t","o","d","y">> }

InitDetect ==
    /\ detector = ViolationDetector
    /\ search = None
    /\ text \in Texts
    /\ document_type \in Hints
    /\ scanned = <<>>
    /\ returned = <<>>
    /\ pc = "call"
    /\ case_data = None
    /\ case_files = <<>>
    /\ pdf_cache = <<>>
    /\ uploaded_file = None
    /\ legal_analysis = None
    /\ timeline_view = None
    /\ adds = 0
    /\ cases_created = 0

DetectViolations ==
    /\ pc = "call"
    /\ scanned' = scan_patterns(text, document_type)
    /\ returned' = sort_by_severity_score(_deduplicate_violations(scanned'))
    /\ pc' = "returned"
    /\ UNCHANGED <<text, document_type, caseVars>>

NextDetect == DetectViolations

SpecDetect == InitDetect /\ [][NextDetect]_vars

-----------------------------------------------------------------------------
(* The application: src/app.py *)

\* the documents a case may be given, re-adds counted
MaxAdds == 2

\* the cases a session may create
MaxCases == 1

Init ==
    /\ detector = ViolationDetector
    /\ search = None
    /\ case_data = None
    /\ case_files = <<>>
    /\ pdf_cache = <<>>
    /\ uploaded_file = None
    /\ legal_analysis = None
    /\ timeline_view = None
    /\ adds = 0
    /\ cases_created = 0
    /\ text = <<>>
    /\ document_type = unknown_type
    /\ scanned = <<>>
    /\ returned = <<>>
    /\ pc = "idle"

\* the Create Case button
CreateCase ==
    /\ cases_created < MaxCases
    /\ \E case_name \in CaseNames :
          case_data' = create_case_session(new_case_id(cases_created + 1), case_name)
    /\ cases_created' = cases_created + 1
    /\ UNCHANGED <<case_files, pdf_cache, uploaded_file, legal_analysis,
                   timeline_view, adds, detectVars, detector, search>>

\* memory_handler.save_pdf_data: the metadata file of the cache entry
cache_metadata(pdf_hash, pdf_text, metadata) ==
    [pdf_hash |-> pdf_hash, text_length |-> Len(pdf_text), metadata |-> metadata]

\* process_uploaded_pdf when load_pdf_data finds the file in the cache
LoadFromCache(file) ==
    LET pdf_hash == calculate_pdf_hash(file)
        cached_data == [pdf_text |-> SampleDocuments[file.content].text,
                        metadata |-> pdf_cache[pdf_hash]]
        has_analysis == "legal_analysis" \in DOMAIN cached_data.metadata
        adding == /\ has_analysis
                  /\ case_data # None
                  /\ pdf_hash \notin Keys(case_data.documents)
    IN  /\ pdf_hash \in DOMAIN pdf_cache
        /\ adding => adds < MaxAdds
        /\ uploaded_file' = file
        /\ legal_analysis' = IF has_analysis
                             THEN (IF adding
                                   THEN StampAnalysis(cached_data.metadata.legal_analysis,
                                                      pdf_hash,
                                                      cached_data.metadata.filename)
                                   ELSE cached_data.metadata.legal_analysis)
                             ELSE legal_analysis
        /\ IF adding
           THEN LET added == add_document_to_case(case_data, pdf_hash,
                                 cached_data.metadata,
                                 cached_data.metadata.legal_analysis)
                IN  /\ case_files' = (case_data.case_id :> saved_file(added)) @@ case_files
                    /\ case_data' = case_after_save(added)
                    /\ adds' = adds + 1
           ELSE UNCHANGED <<case_data, case_files, adds>>
        /\ UNCHANGED <<pdf_cache, timeline_view, cases_created, detector, search, detectVars>>

\* the mutant of ProcessFresh that saves the case as add_document_to_case
\* left it, with the timeline, contradictions and actors of before
ProcessFresh_unrebuilt(file) ==
    LET pdf_hash == calculate_pdf_hash(file)
        combined_text == SampleDocuments[file.content].text
    IN  /\ pdf_hash \notin DOMAIN pdf_cache
        /\ case_data # None => adds < MaxAdds
        /\ \E entities \in extract_legal_entities(SampleDocuments[file.content]) :
           \E analysis \in {[TextAnalyses[file.content].analysis
                                 EXCEPT !.legal_entities = entities]} :
           \E advanced_violations \in {TextAnalyses[file.content].advanced_violations} :
           \E analysed \in {("all_violations" :>
                                (analysis.potential_violations \o advanced_violations))
                                @@ analysis} :
             /\ pdf_cache' = (pdf_hash :> cache_metadata(pdf_hash, combined_text,
                                   [filename |-> file.name, legal_analysis |-> analysed]))
                                @@ pdf_cache
             /\ uploaded_file' = file
             /\ IF case_data # None
                THEN \E added \in {add_document_to_case(case_data, pdf_hash,
                                       [filename |-> file.name], analysed)} :
                     \E tracked \in {added} :
                       /\ legal_analysis' = Get(added.documents, pdf_hash).legal_analysis
                       /\ case_files' = (case_data.case_id :> saved_file(tracked))
                                           @@ case_files
                       /\ case_data' = case_after_save(tracked)
                       /\ adds' = adds + 1
                ELSE /\ legal_analysis' = analysed
                     /\ UNCHANGED <<case_data, case_files, adds>>
        /\ UNCHANGED <<timeline_view, cases_created, detector, search, detectVars>>

\* process_uploaded_pdf when the file is not in the cache
ProcessFresh(file) ==
    LET pdf_hash == calculate_pdf_hash(file)
        combined_text == SampleDocuments[file.content].text
    IN  /\ pdf_hash \notin DOMAIN pdf_cache
        /\ case_data # None => adds < MaxAdds
        /\ \E entities \in extract_legal_entities(SampleDocuments[file.content]) :
           \E analysis \in {[TextAnalyses[file.content].analysis
                                 EXCEPT !.legal_entities = entities]} :
           \E advanced_violations \in {TextAnalyses[file.content].advanced_violations} :
           \E analysed \in {("all_violations" :>
                                (analysis.potential_violations \o advanced_violations))
                                @@ analysis} :
             /\ pdf_cache' = (pdf_hash :> cache_metadata(pdf_hash, combined_text,
                                   [filename |-> file.name, legal_analysis |-> analysed]))
                                @@ pdf_cache
             /\ uploaded_file' = file
             /\ IF case_data # None
                THEN \E added \in {add_document_to_case(case_data, pdf_hash,
                                       [filename |-> file.name], analysed)} :
                     \E dated \in {generate_timeline(added)} :
                     \E checked \in {detect_contradictions(dated)} :
                     \E tracked \in {track_repeat_actors(checked)} :
                       /\ legal_analysis' = Get(added.documents, pdf_hash).legal_analysis
                       /\ case_files' = (case_data.case_id :> saved_file(tracked))
                                           @@ case_files
                       /\ case_data' = case_after_save(tracked)
                       /\ adds' = adds + 1
                ELSE /\ legal_analysis' = analysed
                     /\ UNCHANGED <<case_data, case_files, adds>>
        /\ UNCHANGED <<timeline_view, cases_created, detector, search, detectVars>>

\* process_uploaded_pdf, on the Analyze Document button
ProcessUploadedPdf == \E file \in UploadedFiles : LoadFromCache(file) \/ ProcessFresh(file)

\* the Clear Cache button, shown while the cache holds files:
\* memory_handler.clear_cache()
ClearCache ==
    /\ DOMAIN pdf_cache # {}
    /\ pdf_cache' = <<>>
    /\ UNCHANGED <<case_data, case_files, uploaded_file, legal_analysis,
                   timeline_view, adds, cases_created, detector, search, detectVars>>

\* the Save Case Session button
SaveCaseSession ==
    /\ case_data # None
    /\ case_files' = (case_data.case_id :> saved_file(case_data)) @@ case_files
    /\ case_data' = case_after_save(case_data)
    /\ UNCHANGED <<pdf_cache, uploaded_file, legal_analysis, timeline_view, adds,
                   cases_created, detector, search, detectVars>>

\* the Case Timeline tab, shown for a case with a timeline
ViewTimeline ==
    /\ case_data # None
    /\ Len(case_data.timeline) > 0
    /\ timeline_view' = [timeline |-> case_data.timeline,
                         timeline_violations |->
                             analyze_timeline_violations(case_data.timeline)]
    /\ UNCHANGED <<case_data, case_files, pdf_cache, uploaded_file, legal_analysis,
                   adds, cases_created, detector, search, detectVars>>

Next ==
    \/ CreateCase
    \/ ProcessUploadedPdf
    \/ ClearCache
    \/ SaveCaseSession
    \/ ViewTimeline

Spec == Init /\ [][Next]_vars

-----------------------------------------------------------------------------
(* CaseManager called directly: src/case_manager.py *)

\* the add_document_to_case calls made on the case
MaxCalls == 2

\* the pdf_hash and filename arguments of add_document_to_case: two names
\* under one hash, and two more hashes
AddedFiles ==
    { [pdf_hash |-> "h1", filename |-> "a.pdf"],
      [pdf_hash |-> "h1", filename |-> "a-copy.pdf"],
      [pdf_hash |-> "h2", filename |-> "b.pdf"],
      [pdf_hash |-> "h3", filename |-> "c.pdf"] }

\* a violation as detect_potential_violations builds it, its context the
\* indicator itself
Indicated(indicator) ==
    [type |-> indicator.name, context |-> indicator.chars,
     severity |-> _assess_violation_severity(indicator.name)]

\* the legal_analysis arguments of add_document_to_case, each a value
\* comprehensive_legal_analysis returns for some text
AddedAnalyses ==
    { [document_type |-> [type |-> <<"o", "r", "d", "e", "r">>, confidence |-> [num |-> 1, den |-> 1]],
       legal_entities |-> [case_numbers |-> <<"CV-101">>,
                           judge_names |-> <<"Smith">>,
                           dates |-> << NumericDate("01/15/2023", "/", Digits(1, 2),
                                                    Digits(15, 2), Digits(2023, 4)) >>],
       potential_violations |-> << Indicated(violation_indicators[1]) >>],
      [document_type |-> [type |-> <<"c", "p", "s">>, confidence |-> [num |-> 2, den |-> 3]],
       legal_entities |-> [case_numbers |-> <<"CV-202", "CV-101">>,
                           judge_names |-> <<"Smith", "Jones">>,
                           dates |-> << NumericDate("01/15/2023", "/", Digits(1, 2),
                                                    Digits(15, 2), Digits(2023, 4)) >>],
       potential_violations |-> << Indicated(violation_indicators[3]),
                                   Indicated(violation_indicators[4]) >>],
      [document_type |-> [type |-> <<"o", "r", "d", "e", "r">>, confidence |-> [num |-> 1, den |-> 2]],
       legal_entities |-> [case_numbers |-> <<"CV-202">>],
       potential_violations |-> << Indicated(violation_indicators[4]) >>],
      [document_type |-> [type |-> unknown_type, confidence |-> [num |-> 0, den |-> 1]],
       legal_entities |-> [judge_names |-> <<"Jones">>],
       potential_violations |-> <<>>] }

InitCase ==
    /\ detector = ViolationDetector
    /\ search = None
    /\ case_data = create_case_session(new_case_id(1), "Smith v. State CPS")
    /\ pc = "created"
    /\ adds = 0
    /\ cases_created = 1
    /\ case_files = <<>>
    /\ pdf_cache = <<>>
    /\ uploaded_file = None
    /\ legal_analysis = None
    /\ timeline_view = None
    /\ text = <<>>
    /\ document_type = unknown_type
    /\ scanned = <<>>
    /\ returned = <<>>

\* add_document_to_case; case_data['documents'] raises KeyError on a case
\* without documents before anything is assigned
AddDocumentToCase ==
    /\ adds < MaxCalls
    /\ "documents" \in DOMAIN case_data
    /\ \E file \in AddedFiles, analysis \in AddedAnalyses :
           case_data' = add_document_to_case(case_data, file.pdf_hash,
                                             [filename |-> file.filename], analysis)
    /\ adds' = adds + 1
    /\ pc' = "add_document_to_case"
    /\ UNCHANGED <<case_files, pdf_cache, uploaded_file, legal_analysis, timeline_view,
                   cases_created, detector, search, text, document_type, scanned, returned>>

\* generate_timeline, and below detect_contradictions: KeyError likewise
GenerateTimeline ==
    /\ "documents" \in DOMAIN case_data
    /\ case_data' = generate_timeline(case_data)
    /\ pc' = "generate_timeline"
    /\ UNCHANGED <<case_files, pdf_cache, uploaded_file, legal_analysis, timeline_view,
                   adds, cases_created, detector, search, text, document_type, scanned, returned>>

DetectContradictions ==
    /\ "documents" \in DOMAIN case_data
    /\ case_data' = detect_contradictions(case_data)
    /\ pc' = "detect_contradictions"
    /\ UNCHANGED <<case_files, pdf_cache, uploaded_file, legal_analysis, timeline_view,
                   adds, cases_created, detector, search, text, document_type, scanned, returned>>

\* track_repeat_actors; case_data['violations'] raises KeyError on a case
\* without violations
TrackRepeatActors ==
    /\ "violations" \in DOMAIN case_data
    /\ case_data' = track_repeat_actors(case_data)
    /\ pc' = "track_repeat_actors"
    /\ UNCHANGED <<case_files, pdf_cache, uploaded_file, legal_analysis, timeline_view,
                   adds, cases_created, detector, search, text, document_type, scanned, returned>>

NextCase ==
    \/ AddDocumentToCase
    \/ GenerateTimeline
    \/ DetectContradictions
    \/ TrackRepeatActors

SpecCase == InitCase /\ [][NextCase]_vars

\* save_case_session(case_data['case_id'], case_data)
SaveCase ==
    /\ case_files' = (case_data.case_id :> saved_file(case_data)) @@ case_files
    /\ case_data' = case_after_save(case_data)
    /\ pc' = "save_case_session"
    /\ UNCHANGED <<pdf_cache, uploaded_file, legal_analysis, timeline_view,
                   adds, cases_created, detector, search, text, document_type, scanned, returned>>

\* load_case_session of a saved case, what it returns taken as the case as
\* the sidebar does; an exception leaves the case as it is
LoadCase ==
    /\ \E case_id \in DOMAIN case_files :
          LET loaded_case == load_case_session(case_files, case_id)
          IN  IF loaded_case = JSONDecodeError
              THEN case_data' = case_data /\ pc' = "JSONDecodeError"
              ELSE case_data' = loaded_case /\ pc' = "load_case_session"
    /\ UNCHANGED <<case_files, pdf_cache, uploaded_file, legal_analysis, timeline_view,
                   adds, cases_created, detector, search, text, document_type, scanned, returned>>

NextStore ==
    \/ NextCase
    \/ SaveCase
    \/ LoadCase

SpecStore == InitCase /\ [][NextStore]_vars

\* the snapshots of a case that are not what save_case_session wrote: a file
\* cut short, and a JSON object with the head of the case and nothing else
MalformedSnapshots(case_id) ==
    { Unparseable,
      [case_id |-> case_id, case_name |-> "Smith v. State CPS"] }

\* a file of case_sessions/ is replaced from outside the program
DamageSnapshot ==
    /\ \E case_id \in DOMAIN case_files :
          \E snapshot \in MalformedSnapshots(case_id) :
              case_files' = [case_files EXCEPT ![case_id] = snapshot]
    /\ UNCHANGED <<case_data, pc, pdf_cache, uploaded_file, legal_analysis,
                   timeline_view, adds, cases_created, detector, search, text, document_type,
                   scanned, returned>>

NextDamaged ==
    \/ NextStore
    \/ DamageSnapshot

SpecDamaged == InitCase /\ [][NextDamaged]_vars

-----------------------------------------------------------------------------
(* The operations that ask the language model, called on the sample texts and
   on the case; returned holds the call last made:
   [development_mode, outcome, returned, client_calls] *)

\* what an operation returned, with the arguments it was given
Called(development_mode, outcome, result) ==
    [development_mode |-> development_mode, outcome |-> outcome,
     returned |-> result.returned, client_calls |-> result.client_calls]

FindProceduralFlaws ==
    /\ \E content \in DOMAIN SampleDocuments, development_mode \in BOOLEAN,
          outcome \in ClientOutcomes :
          /\ text' = SampleDocuments[content].text
          /\ returned' = Called(development_mode, outcome,
                                find_procedural_flaws(SampleDocuments[content].text,
                                                      development_mode, outcome))
    /\ pc' = "find_procedural_flaws"
    /\ UNCHANGED <<document_type, scanned, caseVars>>

AdvancedViolationAnalysis ==
    /\ \E content \in DOMAIN SampleDocuments, development_mode \in BOOLEAN,
          outcome \in ClientOutcomes :
          /\ text' = SampleDocuments[content].text
          /\ returned' = Called(development_mode, outcome,
                                advanced_violation_analysis(SampleDocuments[content].text,
                                                            development_mode, outcome))
    /\ pc' = "advanced_violation_analysis"
    /\ UNCHANGED <<document_type, scanned, caseVars>>

GenerateCaseSummary ==
    /\ \E development_mode \in BOOLEAN, outcome \in ClientOutcomes :
          returned' = Called(development_mode, outcome,
                             generate_case_summary(case_data, development_mode, outcome))
    /\ pc' = "generate_case_summary"
    /\ UNCHANGED <<text, document_type, scanned, caseVars>>

GenerateLegalBriefTemplate ==
    /\ \E development_mode \in BOOLEAN, outcome \in ClientOutcomes :
          returned' = Called(development_mode, outcome,
                             generate_legal_brief_template(case_data, development_mode,
                                                           outcome))
    /\ pc' = "generate_legal_brief_template"
    /\ UNCHANGED <<text, document_type, scanned, caseVars>>

\* process_uploaded_pdf when the file is not in the cache and a case is
\* active, with the analyses the language model is asked for: the procedural
\* analysis always, the advanced analysis in legal analysis mode outside
\* development mode
ProcessAnalysed ==
    \E file \in UploadedFiles, development_mode \in BOOLEAN,
       legal_analysis_mode \in BOOLEAN, outcome \in ClientOutcomes,
       advanced_outcome \in ClientOutcomes :
      LET pdf_hash == calculate_pdf_hash(file)
          combined_text == SampleDocuments[file.content].text
          procedural == find_procedural_flaws(combined_text, development_mode, outcome)
          advanced == advanced_violation_analysis(combined_text, development_mode,
                                                  advanced_outcome)
          asked == legal_analysis_mode /\ ~development_mode
      IN  /\ pdf_hash \notin DOMAIN pdf_cache
          /\ case_data # None
          /\ adds < MaxAdds
          /\ asked \/ advanced_outcome = outcome
          /\ \E entities \in extract_legal_entities(SampleDocuments[file.content]) :
             \E analysis \in {("procedural_analysis" :> procedural.returned)
                                  @@ [TextAnalyses[file.content].analysis
                                         EXCEPT !.legal_entities = entities]} :
             \E advanced_violations \in {TextAnalyses[file.content].advanced_violations} :
             \E merged \in {("all_violations" :>
                                  (analysis.potential_violations \o advanced_violations))
                                  @@ analysis} :
             \E analysed \in {IF asked
                               THEN ("ai_analysis" :> advanced.returned) @@ merged
                               ELSE merged} :
             \E added \in {add_document_to_case(case_data, pdf_hash,
                                                [filename |-> file.name], analysed)} :
             \E dated \in {generate_timeline(added)} :
             \E checked \in {detect_contradictions(dated)} :
             \E tracked \in {track_repeat_actors(checked)} :
               /\ pdf_cache' = (pdf_hash :> cache_metadata(pdf_hash, combined_text,
                                     [filename |-> file.name, legal_analysis |-> analysed]))
                                  @@ pdf_cache
               /\ uploaded_file' = file
               /\ legal_analysis' = Get(added.documents, pdf_hash).legal_analysis
               /\ case_files' = (case_data.case_id :> saved_file(tracked)) @@ case_files
               /\ case_data' = case_after_save(tracked)
               /\ adds' = adds + 1
               /\ text' = combined_text
               /\ returned' = [development_mode |-> development_mode,
                               legal_analysis_mode |-> legal_analysis_mode,
                               outcome |-> outcome,
                               advanced_outcome |-> advanced_outcome,
                               client_calls |-> procedural.client_calls
                                   + (IF asked THEN advanced.client_calls ELSE 0)]
               /\ pc' = "process_uploaded_pdf"
          /\ UNCHANGED <<timeline_view, cases_created, detector, search, document_type, scanned>>

\* the four operations, on the sample texts and on the cases that
\* add_document_to_case builds
NextLLM ==
    \/ FindProceduralFlaws
    \/ AdvancedViolationAnalysis
    \/ GenerateCaseSummary
    \/ GenerateLegalBriefTemplate
    \/ AddDocumentToCase

SpecLLM == InitCase /\ [][NextLLM]_vars

\* the Analyze Document button on an active case, and the Clear Cache button
NextAnalysed ==
    \/ ProcessAnalysed
    \/ ClearCache

SpecAnalysed == InitCase /\ [][NextAnalysed]_vars

-----------------------------------------------------------------------------
(* analyze_document_type applied to texts of a few words *)

\* the words a text has at most
MaxWords == 3

\* words with keywords of several types, one in capitals, one holding the
\* keywords of two types, and one with no keyword
Words ==
    << <<"O","R","D","E","R">>,
       <<"p","e","t","i","t","i","o","n">>,
       <<"c","o","u","n","t","e","r","p","e","t","i","t","i","o","n">>,
       <<"c","p","s">>,
       <<"c","h","i","l","d"," ","s","u","p","p","o","r","t">>,
       <<"h","e","a","r","i","n","g">> >>

ClassifiedTexts ==
    {ConcatAll([i \in 1..Len(ws) |-> (IF i = 1 THEN <<>> ELSE <<" ">>) \o Words[ws[i]]]) :
        ws \in UNION {[1..n -> 1..Len(Words)] : n \in 0..MaxWords}}

InitClassify ==
    /\ detector = ViolationDetector
    /\ search = None
    /\ text \in ClassifiedTexts
    /\ pc = "call"
    /\ returned = <<>>
    /\ document_type = unknown_type
    /\ scanned = <<>>
    /\ case_data = None
    /\ case_files = <<>>
    /\ pdf_cache = <<>>
    /\ uploaded_file = None
    /\ legal_analysis = None
    /\ timeline_view = None
    /\ adds = 0
    /\ cases_created = 0

AnalyzeDocumentType ==
    /\ pc = "call"
    /\ returned' = analyze_document_type(text)
    /\ pc' = "analyze_document_type"
    /\ UNCHANGED <<text, document_type, scanned, caseVars>>

NextClassify == AnalyzeDocumentType

SpecClassify == InitClassify /\ [][NextClassify]_vars

-----------------------------------------------------------------------------
(* extract_legal_entities applied to texts of a few fragments *)

\* the fragments a text has at most
MaxFragments == 3

\* a case number in two spellings, a deadline heading, words that can follow
\* it, a full stop, and a term of the CPS pattern
Fragments ==
    << <<"C","a","s","e"," ","N","o","."," ","C","V","-","1","0","1">>,
       <<"c","a","s","e",":"," ","c","v","-","1","0","1">>,
       <<"D","E","A","D","L","I","N","E",":">>,
       <<"M","a","y"," ","5",",">>,
       <<".">>,
       <<"C","P","S">> >>

EntityTexts ==
    {ConcatAll([i \in 1..Len(fs) |-> (IF i = 1 THEN <<>> ELSE <<" ">>) \o Fragments[fs[i]]]) :
        fs \in UNION {[1..n -> 1..Len(Fragments)] : n \in 0..MaxFragments}}

InitEntities ==
    /\ detector = ViolationDetector
    /\ search = None
    /\ text \in EntityTexts
    /\ pc = "call"
    /\ returned = <<>>
    /\ document_type = unknown_type
    /\ scanned = <<>>
    /\ case_data = None
    /\ case_files = <<>>
    /\ pdf_cache = <<>>
    /\ uploaded_file = None
    /\ legal_analysis = None
    /\ timeline_view = None
    /\ adds = 0
    /\ cases_created = 0

ExtractLegalEntities ==
    /\ pc = "call"
    /\ returned' \in extract_legal_entities_of(text)
    /\ pc' = "extract_legal_entities"
    /\ UNCHANGED <<text, document_type, scanned, caseVars>>

NextEntities == ExtractLegalEntities

SpecEntities == InitEntities /\ [][NextEntities]_vars

-----------------------------------------------------------------------------
(* CaseManager called on a case that holds violations of no document *)

\* violations in a case handed to CaseManager that name a document the case
\* does not hold, or name none
StrayViolations ==
    << [type |-> "brady violation", context |-> <<"b","r","a","d","y">>,
        severity |-> "high", document_hash |-> "h0", document_name |-> "gone.pdf"],
       [type |-> "procedural error", context |-> <<"e","r","r","o","r">>,
        severity |-> "medium"] >>

InitStray ==
    /\ detector = ViolationDetector
    /\ search = None
    /\ \E n \in 0..Len(StrayViolations), first \in 1..Len(StrayViolations) :
          case_data = [create_case_session(new_case_id(1), "Smith v. State CPS")
                          EXCEPT !.violations =
                             [i \in 1..n |->
                                StrayViolations[((first + i - 2) % Len(StrayViolations)) + 1]]
                             \o <<>>]
    /\ pc = "created"
    /\ adds = 0
    /\ cases_created = 1
    /\ case_files = <<>>
    /\ pdf_cache = <<>>
    /\ uploaded_file = None
    /\ legal_analysis = None
    /\ timeline_view = None
    /\ text = <<>>
    /\ document_type = unknown_type
    /\ scanned = <<>>
    /\ returned = <<>>

SpecStray == InitStray /\ [][NextCase]_vars

-----------------------------------------------------------------------------
(* detect_violations called again and again on one ViolationDetector *)

\* the texts of a call are at most this many fragments
MaxTriggers == 2

\* matches of the general table and of both sub-tables, and the words the
\* sub-table conditions look for
TriggerFragments ==
    << <<"d","u","e"," ","p","r","o","c","e","s","s"," ","v","i","o","l","a","t","i","o","n">>,
       <<"V","i","s","i","t","a","t","i","o","n"," ","d","e","n","i","e","d">>,
       <<"j","u","d","i","c","i","a","l"," ","b","i","a","s">>,
       <<"C","P","S">>,
       <<"C","h","i","l","d"," ","P","r","o","t","e","c","t","i","v","e">>,
       <<"D","H","R">>,
       <<"F","a","m","i","l","y"," ","C","o","u","r","t">> >>

TriggerTexts ==
    { ConcatAll([i \in 1..Len(fs) |->
          (IF i = 1 THEN <<>> ELSE <<" ">>) \o TriggerFragments[fs[i]]])
        : fs \in UNION {[1..n -> 1..Len(TriggerFragments)] : n \in 0..MaxTriggers} }

TriggerHints ==
    { <<"u","n","k","n","o","w","n">>, <<"C","P","S"," ","r","e","p","o","r","t">>,
      <<"C","u","s","t","o","d","y">>, <<"c","p","s","/","c","u","s","t","o","d","y">> }

InitTables ==
    /\ detector = ViolationDetector
    /\ search = None
    /\ text \in TriggerTexts
    /\ document_type \in TriggerHints
    /\ scanned = <<>>
    /\ returned = <<>>
    /\ pc = "call"
    /\ case_data = None
    /\ case_files = <<>>
    /\ pdf_cache = <<>>
    /\ uploaded_file = None
    /\ legal_analysis = None
    /\ timeline_view = None
    /\ adds = 0
    /\ cases_created = 0

\* one call of detect_violations on the object
DetectViolationsOn ==
    /\ pc = "call"
    /\ \E call \in {detect_violations_on(detector, text, document_type)} :
          /\ scanned' = call.scanned
          /\ returned' = call.returned
          /\ detector' = call.self
    /\ pc' = "returned"
    /\ UNCHANGED <<text, document_type, case_data, case_files, pdf_cache,
                   uploaded_file, legal_analysis, timeline_view, adds, cases_created,
                   search>>

\* the caller comes back with another text and type hint
NextDocument ==
    /\ pc = "returned"
    /\ text' \in TriggerTexts
    /\ document_type' \in TriggerHints
    /\ pc' = "call"
    /\ UNCHANGED <<scanned, returned, caseVars>>

NextTables == DetectViolationsOn \/ NextDocument

SpecTables == InitTables /\ [][NextTables]_vars

-----------------------------------------------------------------------------
(* The reports of a case with many violations and actors *)

\* a case of the reports holds at most this many violations, and actors
MaxReported == 12

\* how the severities follow each other in the violations of a reported case
SeverityRuns ==
    { <<"high">>, <<"medium">>, <<"low", "high", "medium">>, <<"high", "high", "medium">> }

ReportedViolations(n, run) ==
    [i \in 1..n |->
        [type |-> "due_process_denial",
         description |-> "Denial of due process rights",
         severity |-> run[(i % Len(run)) + 1],
         context |-> <<"n", "o", "t", "i", "c", "e", " ">> \o TwoDigits(i),
         document_hash |-> "h1",
         document_name |-> "a.pdf"]] \o <<>>

\* the actors of a reported case: the i-th has the score (i * step) % 5 + 1
ReportedActors(n, step) ==
    [i \in 1..n |->
        [key |-> <<"J">> \o TwoDigits(i),
         value |-> [type |-> "judge",
                    violations |-> <<>>,
                    documents |-> <<"a.pdf">>,
                    severity_score |-> ((i * step) % 5) + 1]]] \o <<>>

ReportedCases ==
    { [create_case_session(new_case_id(1), "Smith v. State CPS")
          EXCEPT !.violations = ReportedViolations(n, run),
                 !.actor_tracking = ReportedActors(m, step)]
        : n \in {0, 1, MaxReported - 1, MaxReported}, run \in SeverityRuns,
          m \in {0, 2, MaxReported - 2, MaxReported}, step \in 0..2 }

InitReport ==
    /\ detector = ViolationDetector
    /\ search = None
    /\ case_data \in ReportedCases
    /\ pc = "created"
    /\ adds = 0
    /\ cases_created = 1
    /\ case_files = <<>>
    /\ pdf_cache = <<>>
    /\ uploaded_file = None
    /\ legal_analysis = None
    /\ timeline_view = None
    /\ text = <<>>
    /\ document_type = unknown_type
    /\ scanned = <<>>
    /\ returned = <<>>

\* the case and what is returned after a call of one of the reports
Reported(call, name) ==
    /\ returned' = call.returned
    /\ case_data' = call.case_data
    /\ pc' = name
    /\ UNCHANGED <<text, document_type, scanned, case_files, pdf_cache, uploaded_file,
                   legal_analysis, timeline_view, adds, cases_created, detector, search>>

CaseSummary == Reported(generate_case_summary_listing(case_data), "generate_case_summary")

ViolationBriefing == Reported(generate_violation_briefing(case_data), "generate_violation_briefing")

ExportCaseData == Reported(export_case_data(case_data), "export_case_data")

NextReport == CaseSummary \/ ViolationBriefing \/ ExportCaseData

SpecReport == InitReport /\ [][NextReport]_vars

-----------------------------------------------------------------------------
(* detect_violations on texts with a match near and far from their ends *)

\* the lengths of what stands before and after the match: none, a few
\* characters, and one less than, exactly and one more than a context radius
MarginLens == {0, 3, ContextRadius - 1, ContextRadius, ContextRadius + 1}

\* what a margin is filled with
MarginChars == {"x", " ", DottedI}

Margin(c, n) == [i \in 1..n |-> c] \o <<>>

MarginTexts ==
    { Margin(before, n) \o <<" ">> \o Phrases[p] \o <<"\n">> \o Margin("y", m)
        : before \in MarginChars, n \in MarginLens, m \in {0, 3, ContextRadius + 1},
          p \in {1, 3} }

InitMargins ==
    /\ detector = ViolationDetector
    /\ search = None
    /\ text \in MarginTexts
    /\ document_type \in {unknown_type}
    /\ scanned = <<>>
    /\ returned = <<>>
    /\ pc = "call"
    /\ case_data = None
    /\ case_files = <<>>
    /\ pdf_cache = <<>>
    /\ uploaded_file = None
    /\ legal_analysis = None
    /\ timeline_view = None
    /\ adds = 0
    /\ cases_created = 0

SpecMargins == InitMargins /\ [][NextDetect]_vars

-----------------------------------------------------------------------------
(* _parse_date on date strings of every shape *)

\* the digit runs of the numeric date strings: months and days of one and two
\* digits, numbers too large for a month or a day, years of two and four digits
DateRuns ==
    { Digits(2, 1), Digits(1, 2), Digits(12, 2), Digits(13, 2), Digits(31, 2),
      Digits(0, 2), Digits(69, 2), Digits(2023, 4) }

\* the characters of a digit run
RunText(run) ==
    CASE run.width = 1 -> <<Digit(run.val)>>
      [] run.width = 2 -> TwoDigits(run.val)
      [] run.width = 4 -> FourDigits(run.val)

DateStrings ==
    { NumericDate(RunText(a) \o <<sep>> \o RunText(b) \o <<sep>> \o RunText(c), sep, a, b, c)
        : sep \in {"/", "-"}, a \in DateRuns, b \in DateRuns, c \in DateRuns }
    \cup
    { NamedDate(<<"J","a","n","u","a","r","y"," ","5",","," ","2","0","2","3">>,
                1, {"B"}, TRUE, Digits(5, 1), Digits(2023, 4)),
      NamedDate(<<"J","a","n"," ","0","5"," ","2","0","2","3">>,
                1, {"b"}, FALSE, Digits(5, 2), Digits(2023, 4)),
      NamedDate(<<"M","a","y"," ","5",","," ","2","0","2","3">>,
                5, {"B", "b"}, TRUE, Digits(5, 1), Digits(2023, 4)),
      NamedDate(<<"F","e","b"," ","3","0",","," ","2","0","2","3">>,
                2, {"b"}, TRUE, Digits(30, 2), Digits(2023, 4)),
      NamedDate(<<"M","a","y"," ","5"," ","2","3">>,
                5, {"B", "b"}, FALSE, Digits(5, 1), Digits(23, 2)),
      OtherDate(<<"y","e","s","t","e","r","d","a","y">>) }

InitDates ==
    /\ detector = ViolationDetector
    /\ search = None
    /\ text \in DateStrings
    /\ document_type = unknown_type
    /\ scanned = <<>>
    /\ returned = <<>>
    /\ pc = "call"
    /\ case_data = None
    /\ case_files = <<>>
    /\ pdf_cache = <<>>
    /\ uploaded_file = None
    /\ legal_analysis = None
    /\ timeline_view = None
    /\ adds = 0
    /\ cases_created = 0

\* one call of _parse_date on the date string
ParseDate ==
    /\ pc = "call"
    /\ returned' = _parse_date(text)
    /\ pc' = "_parse_date"
    /\ UNCHANGED <<text, document_type, scanned, caseVars>>

NextDates == ParseDate

SpecDates == InitDates /\ [][NextDates]_vars

-----------------------------------------------------------------------------
(* GlobalSearch.search_all_documents, the while loop of _text_search a step *)
(* at a time                                                                *)

\* the results a text search is followed to; the searches that end append
\* fewer
MaxResults == 6

SearchedDocuments ==
    << [key |-> "h1",
        value |-> [filename |-> "a.pdf",
                   document_analysis |->
                       [extracted_text |->
                           <<"D","u","e"," ","p","r","o","c","e","s","s",".",
                             " ","d","u","e"," "," ","P","r","o","c","e","s","s">>]]],
       [key |-> "h2",
        value |-> [filename |-> "b.pdf",
                   document_analysis |-> [filename |-> "b.pdf"]]],
       [key |-> "h3",
        value |-> [filename |-> "c.pdf",
                   document_analysis |->
                       [extracted_text |->
                           <<"J","u","d","i","c","i","a","l"," ","b","i","a","s",
                             " ","d","u","e">>]]] >>

SearchedCases ==
    { [documents |-> <<>>],
      [documents |-> <<SearchedDocuments[1]>>],
      [documents |-> <<SearchedDocuments[2]>>],
      [documents |-> <<SearchedDocuments[1], SearchedDocuments[2]>>],
      [documents |-> <<SearchedDocuments[3], SearchedDocuments[1]>>],
      [documents |-> <<SearchedDocuments[1]>>, development_mode |-> TRUE] }

Queries ==
    { <<>>, <<"d","u","e">>, <<"D","u","e"," ","P","r","o","c","e","s","s">>,
      <<"j","u","d","i","c","i","a","l"," ","b","i","a","s">>, <<"x","y","z">> }

SearchTypes == {"text_only", "pattern_based", "semantic", "comprehensive"}

InitSearch ==
    /\ detector = ViolationDetector
    /\ search = None
    /\ case_data \in SearchedCases
    /\ pc = "created"
    /\ adds = 0
    /\ cases_created = 1
    /\ case_files = <<>>
    /\ pdf_cache = <<>>
    /\ uploaded_file = None
    /\ legal_analysis = None
    /\ timeline_view = None
    /\ text = <<>>
    /\ document_type = unknown_type
    /\ scanned = <<>>
    /\ returned = <<>>

\* the search that follows the text search, the pattern search and the
\* semantic search in a search of the type
StageAfter(stage, search_type) ==
    CASE stage = "text" -> IF search_type = "comprehensive" THEN "pattern" ELSE "return"
      [] stage = "pattern" -> IF search_type = "comprehensive" THEN "semantic" ELSE "return"
      [] stage = "semantic" -> "return"

\* search_all_documents is called: it returns at once for a case without
\* documents and begins the first search of the type otherwise
SearchAllDocuments ==
    /\ pc # "searching"
    /\ \E query \in Queries, search_type \in SearchTypes :
          LET documents == GetField(case_data, "documents", <<>>)
          IN  IF Len(documents) = 0
              THEN /\ returned' = [results |-> <<>>, total_matches |-> 0, query |-> query]
                   /\ pc' = "search_all_documents"
                   /\ search' = None
              ELSE /\ search' = [query |-> query,
                                 search_type |-> search_type,
                                 documents |-> documents,
                                 stage |-> CASE search_type \in {"text_only", "comprehensive"}
                                                  -> "text"
                                             [] search_type = "pattern_based" -> "pattern"
                                             [] search_type = "semantic" -> "semantic",
                                 doc |-> 1,
                                 in_loop |-> FALSE,
                                 start_pos |-> 0,
                                 text_results |-> <<>>,
                                 pattern_results |-> <<>>,
                                 semantic_results |-> <<>>]
                   /\ pc' = "searching"
                   /\ UNCHANGED returned
    /\ UNCHANGED <<text, document_type, scanned, case_data, case_files, pdf_cache,
                   uploaded_file, legal_analysis, timeline_view, adds, cases_created,
                   detector>>

\* _text_search comes to the next document, or to the end of its for loop
TextSearchDocument ==
    /\ pc = "searching"
    /\ search.stage = "text"
    /\ ~search.in_loop
    /\ IF search.doc > Len(search.documents)
       THEN search' = [search EXCEPT !.stage = StageAfter("text", search.search_type)]
       ELSE IF Contains(Lower(search.query),
                        Lower(extracted_text(search.documents[search.doc].value)))
            THEN search' = [search EXCEPT !.in_loop = TRUE, !.start_pos = 0]
            ELSE search' = [search EXCEPT !.doc = @ + 1]
    /\ UNCHANGED <<detectVars, case_data, case_files, pdf_cache, uploaded_file,
                   legal_analysis, timeline_view, adds, cases_created, detector>>

\* one iteration of the while loop of _text_search
TextSearchIteration ==
    /\ pc = "searching"
    /\ search.stage = "text"
    /\ search.in_loop
    /\ Len(search.text_results) < MaxResults
    /\ \E t \in {extracted_text(search.documents[search.doc].value)} :
       \E pos \in {find(Lower(t), Lower(search.query), search.start_pos)} :
          IF pos = -1
          THEN search' = [search EXCEPT !.in_loop = FALSE, !.doc = @ + 1]
          ELSE search' = [search EXCEPT
                             !.text_results =
                                 Append(@, text_result(search.documents[search.doc],
                                                       t, search.query, pos)),
                             !.start_pos = text_search_resume(pos, search.query)]
    /\ UNCHANGED <<detectVars, case_data, case_files, pdf_cache, uploaded_file,
                   legal_analysis, timeline_view, adds, cases_created, detector>>

PatternSearch ==
    /\ pc = "searching"
    /\ search.stage = "pattern"
    /\ search' = [search EXCEPT
                     !.pattern_results = _pattern_search(search.documents, search.query),
                     !.stage = StageAfter("pattern", search.search_type)]
    /\ UNCHANGED <<detectVars, case_data, case_files, pdf_cache, uploaded_file,
                   legal_analysis, timeline_view, adds, cases_created, detector>>

SemanticSearch ==
    /\ pc = "searching"
    /\ search.stage = "semantic"
    /\ \E outcome \in SearchOutcomes :
          search' = [search EXCEPT
                       !.semantic_results =
                           _semantic_search(search.documents, search.query,
                                            GetField(case_data, "development_mode", FALSE),
                                            outcome),
                       !.stage = StageAfter("semantic", search.search_type)]
    /\ UNCHANGED <<detectVars, case_data, case_files, pdf_cache, uploaded_file,
                   legal_analysis, timeline_view, adds, cases_created, detector>>

\* the results are merged, sorted and returned
ReturnResults ==
    /\ pc = "searching"
    /\ search.stage = "return"
    /\ LET all_results == search.text_results \o search.pattern_results
                              \o search.semantic_results
           results == IF search.search_type = "comprehensive"
                      THEN _deduplicate_search_results(all_results)
                      ELSE all_results
       IN  returned' = search_result(results, search.query, search.search_type)
    /\ pc' = "search_all_documents"
    /\ search' = None
    /\ UNCHANGED <<text, document_type, scanned, case_data, case_files, pdf_cache,
                   uploaded_file, legal_analysis, timeline_view, adds, cases_created,
                   detector>>

NextSearch ==
    \/ SearchAllDocuments
    \/ TextSearchDocument
    \/ TextSearchIteration
    \/ PatternSearch
    \/ SemanticSearch
    \/ ReturnResults

SpecSearch == InitSearch /\ [][NextSearch]_vars

-----------------------------------------------------------------------------
(* Properties of detect_violations *)

ScoreOf(severity) ==
    CASE severity = "high" -> 3 [] severity = "medium" -> 2 [] severity = "low" -> 1

\* C1: every violation detect_violations returns has a severity among high,
\* medium and low, and its severity_score is 3, 2, 1 respectively.
C1_SeverityScore ==
    pc = "returned" =>
        \A i \in 1..Len(returned) :
            /\ returned[i].severity \in {"high", "medium", "low"}
            /\ returned[i].severity_score = ScoreOf(returned[i].severity)

\* C1 witness: a returned list that holds a violation of each severity
C1_Witness ==
    /\ pc = "returned"
    /\ \A sev \in {"high", "medium", "low"} :
           \E i \in 1..Len(returned) : returned[i].severity = sev

SameKey(v, w) ==
    /\ v.type = w.type
    /\ Slice(v.context, 0, 50) = Slice(w.context, 0, 50)

\* C2: no two returned violations agree on type and on the first 50 characters
\* of context; the one kept for a key is the first raw match with that key, and
\* every key of a raw match is kept; the spec's scenario text returns exactly
\* one violation, of severity high and score 3.
C2_Deduplicated ==
    pc = "returned" =>
        /\ \A i, j \in 1..Len(returned) : i # j => ~SameKey(returned[i], returned[j])
        /\ \A i \in 1..Len(returned) :
               \E k \in 1..Len(scanned) :
                   /\ scanned[k] = returned[i]
                   /\ \A l \in 1..(k - 1) : ~SameKey(scanned[l], scanned[k])
        /\ \A k \in 1..Len(scanned) :
               \E i \in 1..Len(returned) : SameKey(scanned[k], returned[i])
        /\ text = ScenarioText =>
               /\ Len(returned) = 1
               /\ returned[1].severity = "high"
               /\ returned[1].severity_score = 3

\* C2 witness: two raw matches of one pattern whose contexts agree on their
\* first 50 characters and differ after them, of which one is returned
C2_Witness ==
    /\ pc = "returned"
    /\ \E k, l \in 1..Len(scanned) :
           /\ k < l
           /\ SameKey(scanned[k], scanned[l])
           /\ scanned[k].context # scanned[l].context
           /\ \E i \in 1..Len(returned) : returned[i] = scanned[k]
           /\ \A i \in 1..Len(returned) : returned[i] # scanned[l]

ScanIndex(v) ==
    CHOOSE k \in 1..Len(scanned) :
        scanned[k] = v /\ \A l \in 1..(k - 1) : scanned[l] # v

\* C3: the returned list is in non-increasing severity_score order, and two
\* violations of equal score stand in the order the pattern-table scan
\* produced them.
C3_SortedStable ==
    pc = "returned" =>
        /\ \A i \in 1..(Len(returned) - 1) :
               returned[i].severity_score >= returned[i + 1].severity_score
        /\ \A i, j \in 1..Len(returned) :
               (i < j /\ returned[i].severity_score = returned[j].severity_score)
                   => ScanIndex(returned[i]) < ScanIndex(returned[j])

\* C3 witness: the sort moved a violation ahead of an earlier-scanned one, and
\* two violations of equal score are returned in scan order although the
\* later-scanned one stands first in the text
C3_Witness ==
    /\ pc = "returned"
    /\ \E i, j \in 1..Len(returned) :
           i < j /\ ScanIndex(returned[i]) > ScanIndex(returned[j])
    /\ \E i, j \in 1..Len(returned) :
           /\ i < j
           /\ returned[i].severity_score = returned[j].severity_score
           /\ returned[i].position.start > returned[j].position.start

-----------------------------------------------------------------------------
(* Properties of the case pipeline *)

\* C4: every hash keys one record of case.documents, the record of that hash;
\* every violation in case.violations carries a document_hash that is a key of
\* case.documents and a document_name equal to the filename of the record that
\* is under that hash now.
C4_ViolationsNameCurrentRecord ==
    case_data # None =>
        LET documents == case_data.documents
            violations == case_data.violations
        IN  /\ \A i, j \in 1..Len(documents) :
                   documents[i].key = documents[j].key => i = j
            /\ \A i \in 1..Len(documents) :
                   documents[i].value.pdf_hash = documents[i].key
            /\ \A i \in 1..Len(violations) :
                   /\ "document_hash" \in DOMAIN violations[i]
                   /\ violations[i].document_hash \in Keys(documents)
                   /\ violations[i].document_name =
                          Get(documents, violations[i].document_hash).filename

\* C5: every entity kind a document of the case lists is a kind of the
\* case-level entities, and every value the document lists under it is a member
\* of the case-level collection of that kind.
C5_ExtractedEntitiesInCase ==
    case_data # None =>
        \A i \in 1..Len(case_data.documents) :
            LET entities == case_data.documents[i].value.legal_analysis.legal_entities
            IN  \A kind \in DOMAIN entities :
                    /\ kind \in DOMAIN case_data.entities
                    /\ Range(entities[kind]) \subseteq case_data.entities[kind].members

\* the violations detect_violations returned for the document last processed:
\* what all_violations holds after the potential violations
AdvancedViolations ==
    SubSeq(legal_analysis.all_violations,
           Len(legal_analysis.potential_violations) + 1,
           Len(legal_analysis.all_violations))

\* the document last processed was merged into the active case
MergedLast ==
    /\ case_data # None
    /\ uploaded_file # None
    /\ legal_analysis # None
    /\ calculate_pdf_hash(uploaded_file) \in Keys(case_data.documents)
    /\ Get(case_data.documents, calculate_pdf_hash(uploaded_file)).legal_analysis
           = legal_analysis
    /\ Get(case_data.documents, calculate_pdf_hash(uploaded_file)).filename
           = uploaded_file.name

\* C6: when the document last processed was merged into the active case, every
\* violation detect_violations returned for it is present in case.violations.
C6_DetectedViolationsInCase ==
    MergedLast =>
        \A i \in 1..Len(AdvancedViolations) :
            \E j \in 1..Len(case_data.violations) :
                /\ case_data.violations[j].type = AdvancedViolations[i].type
                /\ case_data.violations[j].context = AdvancedViolations[i].context
                /\ case_data.violations[j].severity = AdvancedViolations[i].severity

\* C7: in every state of a case, each violation in case.violations has a
\* severity_score field, and it is 3, 2 or 1 as its severity is high, medium or
\* low.
C7_CaseViolationsScored ==
    case_data # None =>
        \A i \in 1..Len(case_data.violations) :
            /\ "severity_score" \in DOMAIN case_data.violations[i]
            /\ case_data.violations[i].severity_score
                   = ScoreOf(case_data.violations[i].severity)

\* the places of the date strings in the documents of the case: <<i, j>> is the
\* j-th date string of the i-th document
DatePlaces ==
    UNION {{<<i, j>> : j \in 1..Len(DatesOf(case_data.documents[i].value.legal_analysis))}
              : i \in 1..Len(case_data.documents)}

DateStringAt(place) ==
    DatesOf(case_data.documents[place[1]].value.legal_analysis)[place[2]]

MatchesNoFormat(date_str) ==
    \A f \in 1..Len(date_formats) : strptime(date_str, date_formats[f]) = None

\* the event the spec describes for the date string at a place
EventAt(place) ==
    LET doc == case_data.documents[place[1]]
    IN  [date |-> _parse_date(DateStringAt(place)),
         date_str |-> DateStringAt(place).str,
         document |-> doc.value.filename,
         document_hash |-> doc.key,
         document_type |-> doc.value.legal_analysis.document_type.type,
         context |-> <<"Referenced in ", doc.value.filename>>]

\* C8: the timeline of a case is exactly the list built from its current
\* documents, one event per document and parseable date string and no other,
\* in non-decreasing order of the parsed dates; generate_timeline called on the
\* case again, once or twice, yields the same timeline.
C8_TimelineRebuilt ==
    case_data # None =>
        LET timeline == case_data.timeline
            parseable == {place \in DatePlaces : ~MatchesNoFormat(DateStringAt(place))}
        IN  /\ Len(timeline) = Cardinality(parseable)
            /\ \A place \in parseable :
                   \E k \in 1..Len(timeline) : timeline[k] = EventAt(place)
            /\ \A k \in 1..Len(timeline) :
                   \E place \in parseable : timeline[k] = EventAt(place)
            /\ \A k \in 1..(Len(timeline) - 1) :
                   toordinal(timeline[k].date) <= toordinal(timeline[k + 1].date)
            /\ generate_timeline(case_data).timeline = timeline
            /\ generate_timeline(generate_timeline(case_data)).timeline = timeline

\* C8 witness: a case whose timeline was generated twice, over two documents,
\* and stands in another order than the documents do
C8_Witness ==
    /\ case_data # None
    /\ adds = 2
    /\ Len(case_data.documents) = 2
    /\ Len(case_data.timeline) >= 3
    /\ case_data.timeline[1].document_hash = case_data.documents[2].key
    /\ case_data.timeline[Len(case_data.timeline)].document_hash
           = case_data.documents[1].key

\* C9: a date string that matches none of the formats has no event in the
\* timeline, and every event of the timeline carries a date, so that the sort
\* never falls back on the key it keeps for an event without one.
C9_UnparsedDatesDropped ==
    case_data # None =>
        LET timeline == case_data.timeline
        IN  /\ \A k \in 1..Len(timeline) : timeline[k].date # None
            /\ \A place \in DatePlaces :
                   MatchesNoFormat(DateStringAt(place)) =>
                       \A k \in 1..Len(timeline) :
                           ~ /\ timeline[k].document_hash
                                    = case_data.documents[place[1]].key
                             /\ timeline[k].date_str = DateStringAt(place).str

\* C9 witness: a document of the case lists a date string that matches no
\* format next to one that does, and the timeline holds the event of the latter
C9_Witness ==
    /\ case_data # None
    /\ \E place \in DatePlaces :
           /\ MatchesNoFormat(DateStringAt(place))
           /\ \E k \in 1..Len(case_data.timeline) :
                  case_data.timeline[k].document_hash
                      = case_data.documents[place[1]].key

\* the days from the event before the i-th event of a timeline to the i-th
DaysTo(timeline, i) == toordinal(timeline[i].date) - toordinal(timeline[i - 1].date)

\* C10: for the timeline shown, analyze_timeline_violations returned one
\* excessive_delay violation, of severity medium and score 2 and holding both
\* events, for each adjacent pair of dated events more than 180 days apart, in
\* the order of the pairs, and nothing else: none for a pair 180 days apart or
\* less, none for two events that are not adjacent, none for fewer than two
\* events.
C10_ExcessiveDelays ==
    timeline_view # None =>
        LET timeline == timeline_view.timeline
            timeline_violations == timeline_view.timeline_violations
            delayed == {i \in 2..Len(timeline) :
                           /\ timeline[i].date # None
                           /\ timeline[i - 1].date # None
                           /\ DaysTo(timeline, i) > 180}
            \* the k-th delayed pair
            pair(k) == CHOOSE i \in delayed :
                           Cardinality({j \in delayed : j < i}) = k - 1
        IN  /\ Len(timeline_violations) = Cardinality(delayed)
            /\ \A k \in 1..Len(timeline_violations) :
                   /\ timeline_violations[k].type = "excessive_delay"
                   /\ timeline_violations[k].severity = "medium"
                   /\ timeline_violations[k].severity_score = 2
                   /\ timeline_violations[k].time_difference = DaysTo(timeline, pair(k))
                   /\ timeline_violations[k].events
                          = <<timeline[pair(k) - 1], timeline[pair(k)]>>
            /\ Len(timeline) < 2 => timeline_violations = <<>>

\* C10 witness: the timeline shown has an adjacent pair exactly 180 days apart,
\* whose outer neighbours are more than 180 days from each other, and an
\* adjacent pair further apart, the only one a violation is returned for
C10_Witness ==
    /\ timeline_view # None
    /\ Len(timeline_view.timeline_violations) = 1
    /\ \E i \in 2..Len(timeline_view.timeline) :
           DaysTo(timeline_view.timeline, i) = 180
    /\ \E i \in 2..Len(timeline_view.timeline) :
           DaysTo(timeline_view.timeline, i) > 180
    /\ \E i \in 3..Len(timeline_view.timeline) :
           /\ DaysTo(timeline_view.timeline, i) <= 180
           /\ DaysTo(timeline_view.timeline, i - 1) <= 180
           /\ DaysTo(timeline_view.timeline, i) + DaysTo(timeline_view.timeline, i - 1)
                  > 180

\* the document a violation of the case belongs to lists the judge
ListsJudge(violation, judge) ==
    /\ "document_hash" \in DOMAIN violation
    /\ violation.document_hash \in Keys(case_data.documents)
    /\ judge \in Range(JudgesOf(Get(case_data.documents,
                                    violation.document_hash).legal_analysis))

\* the violations of the case whose document lists the judge, in their order
ViolationsUnder(judge) ==
    SelectSeq(case_data.violations, LAMBDA v : ListsJudge(v, judge))

C12_RebuildsIdempotent ==
    case_data # None =>
        LET tracked == track_repeat_actors(case_data)
            checked == detect_contradictions(case_data)
        IN  /\ tracked = case_data
            /\ track_repeat_actors(tracked).actor_tracking = tracked.actor_tracking
            /\ track_repeat_actors(tracked).violations = case_data.violations
            /\ track_repeat_actors(tracked).documents = case_data.documents
            /\ checked = case_data
            /\ detect_contradictions(checked).contradictions = checked.contradictions
            /\ detect_contradictions(checked).violations = case_data.violations
            /\ detect_contradictions(checked).documents = case_data.documents

\* C12 witness: a case that tracks an actor and holds a contradiction
C12_Witness ==
    /\ case_data # None
    /\ Len(case_data.actor_tracking) > 0
    /\ Len(case_data.contradictions) > 0

\* the documents of the case that list the case number, in their order
DocumentsNumbered(case_num) ==
    SelectSeq(case_data.documents,
              LAMBDA d : case_num \in Range(CaseNumbersOf(d.value.legal_analysis)))

\* the types the documents that list the case number were classified as
TypesNumbered(case_num) ==
    {DocumentsNumbered(case_num)[d].value.legal_analysis.document_type.type
        : d \in 1..Len(DocumentsNumbered(case_num))}

\* C13: after detect_contradictions the contradictions are exactly one entry
\* for each case number that two or more documents list and whose documents
\* are not all of one type; the entry is a case_number_inconsistency of
\* severity medium that names the documents listing the number.  A number of
\* one document, or of documents of one type, has no entry, and neither has a
\* date string, whatever documents share it.
C13_Contradictions ==
    pc = "detect_contradictions" =>
        LET contradictions == case_data.contradictions
            numbers == UNION {Range(CaseNumbersOf(case_data.documents[d].value.legal_analysis))
                                 : d \in 1..Len(case_data.documents)}
            inconsistent == {n \in numbers : /\ Len(DocumentsNumbered(n)) >= 2
                                             /\ Cardinality(TypesNumbered(n)) >= 2}
        IN  /\ Len(contradictions) = Cardinality(inconsistent)
            /\ {contradictions[c].case_number : c \in 1..Len(contradictions)}
                   = inconsistent
            /\ \A c \in 1..Len(contradictions) :
                   /\ contradictions[c].type = "case_number_inconsistency"
                   /\ contradictions[c].severity = "medium"
                   /\ contradictions[c].documents =
                          [d \in 1..Len(DocumentsNumbered(contradictions[c].case_number)) |->
                             DocumentsNumbered(contradictions[c].case_number)[d].value.filename]

\* C13 witness: after detect_contradictions, one case number has an entry
\* that names its two documents, which share a second number or a date string
\* or neither, and are of two types
C13_Witness ==
    /\ pc = "detect_contradictions"
    /\ Len(case_data.documents) = 2
    /\ \E c \in 1..Len(case_data.contradictions) :
           /\ Len(case_data.contradictions[c].documents) = 2
           /\ case_data.contradictions[c].documents[1]
                  # case_data.contradictions[c].documents[2]
    /\ \E n \in {"CV-101", "CV-202"} :
           /\ Len(DocumentsNumbered(n)) = 1
           /\ \A c \in 1..Len(case_data.contradictions) :
                  case_data.contradictions[c].case_number # n

\* the case load_case_session returns for the file save_case_session writes of
\* the case
Reloaded(case) ==
    load_case_session(case.case_id :> saved_file(case), case.case_id)

\* C14: for every case the operations reach, save_case_session followed by
\* load_case_session of the same id returns a case whose entity collections
\* are sets with the members the case had, and whose violations list is the
\* case's, element by element in order.
C14_SaveLoadRoundTrip ==
    LET loaded == Reloaded(case_data)
    IN  /\ DOMAIN loaded.entities = DOMAIN case_data.entities
        /\ \A kind \in DOMAIN case_data.entities :
               /\ loaded.entities[kind].py = "set"
               /\ loaded.entities[kind].members = case_data.entities[kind].members
        /\ loaded.violations = case_data.violations
        /\ pc = "load_case_session" =>
               \A kind \in DOMAIN case_data.entities : case_data.entities[kind].py = "set"

\* C14 witness: a case loaded from its file, with two case numbers, two
\* violations and an event whose date the file holds as a string
C14_Witness ==
    /\ pc = "load_case_session"
    /\ case_data = Reloaded(case_data)
    /\ Cardinality(case_data.entities.case_numbers.members) = 2
    /\ Len(case_data.violations) >= 2
    /\ \E i \in 1..Len(case_data.timeline) : "str" \in DOMAIN case_data.timeline[i].date

\* C15: loading a case whose snapshot is malformed ends in an error and gives
\* the caller no partially populated case; the case in memory stays as it was.
C15_MalformedLoadFails ==
    [][(/\ \A case_id \in DOMAIN case_files :
              case_files[case_id] \in MalformedSnapshots(case_id)
        /\ LoadCase)
       => (/\ pc' = "JSONDecodeError"
           /\ case_data' = case_data)]_vars

\* what the operation named returns in development mode for an empty text, an
\* empty case and a client that would raise
StubOf(operation) ==
    LET outcome == [kind |-> "raises", content |-> "Connection error."]
        case == create_case_session(new_case_id(1), "Smith v. State CPS")
    IN  CASE operation = "find_procedural_flaws" ->
                find_procedural_flaws(<<>>, TRUE, outcome).returned
          [] operation = "advanced_violation_analysis" ->
                advanced_violation_analysis(<<>>, TRUE, outcome).returned
          [] operation = "generate_case_summary" ->
                generate_case_summary(case, TRUE, outcome).returned
          [] operation = "generate_legal_brief_template" ->
                generate_legal_brief_template(case, TRUE, outcome).returned

LLMOperations ==
    {"find_procedural_flaws", "advanced_violation_analysis",
     "generate_case_summary", "generate_legal_brief_template"}

\* C16: in development mode each of find_procedural_flaws,
\* advanced_violation_analysis, the AI section of generate_case_summary and
\* generate_legal_brief_template returns one fixed placeholder, the same for
\* every text, case and state of the client, and makes no call on the client.
C16_DevelopmentModeStub ==
    (pc \in LLMOperations /\ returned.development_mode) =>
        /\ returned.client_calls = 0
        /\ returned.returned = StubOf(pc)

\* C16 witness: find_procedural_flaws called in development mode on a text
\* that is not empty while the client would have answered
C16_Witness ==
    /\ pc = "find_procedural_flaws"
    /\ returned.development_mode
    /\ returned.outcome.kind = "json"
    /\ Len(text) > 0
    /\ Len(case_data.documents) > 0

\* a violation without the document_hash and document_name that
\* add_document_to_case writes into it
Unstamped(violation) ==
    [f \in DOMAIN violation \ {"document_hash", "document_name"} |-> violation[f]]

\* C17: when the client fails while a document is analysed, the failure comes
\* back as an error payload, and the type, the entities and the violations of
\* the patterns are computed all the same, the document is merged into the
\* case, and the timeline, the contradictions and the actor tracking are
\* rebuilt.
C17_FailedAnalysisDoesNotBlock ==
    (/\ pc = "process_uploaded_pdf"
     /\ ~returned.development_mode
     /\ returned.outcome.kind = "raises") =>
        LET doc == SampleDocuments[uploaded_file.content]
            pdf_hash == calculate_pdf_hash(uploaded_file)
            potential == detect_potential_violations(doc.text)
            n == Len(potential)
        IN  /\ "error" \in DOMAIN legal_analysis.procedural_analysis
            /\ legal_analysis.document_type = analyze_document_type(doc.text)
            /\ legal_analysis.legal_entities \in extract_legal_entities(doc)
            /\ Len(legal_analysis.potential_violations) = n
            /\ \A i \in 1..n :
                   Unstamped(legal_analysis.potential_violations[i]) = potential[i]
            /\ SubSeq(legal_analysis.all_violations, n + 1,
                      Len(legal_analysis.all_violations))
                   = detect_violations(doc.text, legal_analysis.document_type.type)
            /\ pdf_hash \in Keys(case_data.documents)
            /\ Get(case_data.documents, pdf_hash).legal_analysis = legal_analysis
            /\ Get(case_data.documents, pdf_hash).filename = uploaded_file.name
            /\ case_data.timeline = generate_timeline(case_data).timeline
            /\ case_data.contradictions = detect_contradictions(case_data).contradictions
            /\ case_data.actor_tracking = track_repeat_actors(case_data).actor_tracking
            /\ case_files[case_data.case_id] = saved_file(case_data)

\* C17 witness: the second document of a case analysed while the client
\* raises, in legal analysis mode: the case has events, violations and an
\* actor, and both analyses of the model are error payloads
C17_Witness ==
    /\ pc = "process_uploaded_pdf"
    /\ ~returned.development_mode
    /\ returned.legal_analysis_mode
    /\ returned.outcome.kind = "raises"
    /\ returned.advanced_outcome.kind = "raises"
    /\ "error" \in DOMAIN legal_analysis.ai_analysis
    /\ Len(case_data.documents) = 2
    /\ Len(case_data.timeline) > 0
    /\ Len(case_data.violations) > 0
    /\ Len(case_data.actor_tracking) > 0

\* the timeline, contradictions and actor tracking of a saved case are what
\* the three rebuilds make of its documents and violations
DerivedAgree(file) ==
    /\ file.timeline = json_dump(generate_timeline(file)).timeline
    /\ file.contradictions = detect_contradictions(file).contradictions
    /\ file.actor_tracking = track_repeat_actors(file).actor_tracking

C19_ActorsNeverRemoved ==
    [][Keys(case_data.actor_tracking) \subseteq Keys(case_data'.actor_tracking)]_vars

\* the score of the e-th document type for a text: the occurrences of its
\* keywords in the text in lower case
KeywordScore(e, t) ==
    SumSeq([k \in 1..Len(document_types[e].keywords) |->
              Count(document_types[e].keywords[k], Lower(t))])

C21_EntityLists ==
    pc = "extract_legal_entities" =>
        /\ \A kind \in DOMAIN returned :
               /\ Len(returned[kind]) > 0
               /\ \A i, j \in 1..Len(returned[kind]) :
                      returned[kind][i] = returned[kind][j] => i = j
               /\ \A i \in 1..Len(returned[kind]) :
                      /\ returned[kind][i] # <<>>
                      /\ Strip(returned[kind][i]) = returned[kind][i]
        /\ \A e \in 1..Len(legal_patterns) :
               findall(legal_patterns[e].pattern, text) = <<>>
                  => legal_patterns[e].kind \notin DOMAIN returned

\* the violation names a document of the case
NamesDocument(violation, case) ==
    IF "document_hash" \in DOMAIN violation
    THEN violation.document_hash \in Keys(case.documents)
    ELSE FALSE

\* the case without the violations that satisfy the test
WithoutViolations(case, Skipped(_)) ==
    [case EXCEPT !.violations = SelectSeq(@, LAMBDA v : ~Skipped(v))]

\* the case without the documents that satisfy the test
WithoutDocuments(case, Skipped(_)) ==
    [case EXCEPT !.documents = SelectSeq(@, LAMBDA d : ~Skipped(d.value))]

\* C22: track_repeat_actors gives what it gives without the violations whose
\* document is not in the case and without those whose document lists no
\* judge names; detect_contradictions gives what it gives without the
\* documents that list no case numbers, generate_timeline what it gives
\* without the documents that list no dates.
C22_MissingItemsSkipped ==
    LET stray(v) == ~NamesDocument(v, case_data)
        judgeless(v) ==
            IF NamesDocument(v, case_data)
            THEN JudgesOf(Get(case_data.documents, v.document_hash).legal_analysis) = <<>>
            ELSE FALSE
        unnumbered(doc) == CaseNumbersOf(doc.legal_analysis) = <<>>
        undated(doc) == DatesOf(doc.legal_analysis) = <<>>
    IN  /\ track_repeat_actors(case_data).actor_tracking
              = track_repeat_actors(WithoutViolations(case_data, stray)).actor_tracking
        /\ track_repeat_actors(case_data).actor_tracking
              = track_repeat_actors(WithoutViolations(case_data, judgeless)).actor_tracking
        /\ detect_contradictions(case_data).contradictions
              = detect_contradictions(WithoutDocuments(case_data, unnumbered)).contradictions
        /\ generate_timeline(case_data).timeline
              = generate_timeline(WithoutDocuments(case_data, undated)).timeline

\* C22 witness: track_repeat_actors has run on a case that holds a violation
\* of a document not in the case between violations of its documents, one
\* document with neither judge names nor dates, and tracks an actor
C22_Witness ==
    /\ pc = "track_repeat_actors"
    /\ Len(case_data.actor_tracking) > 0
    /\ \E i \in 1..Len(case_data.violations) :
           /\ ~NamesDocument(case_data.violations[i], case_data)
           /\ "document_hash" \in DOMAIN case_data.violations[i]
    /\ \E i \in 1..Len(case_data.violations) :
           "document_hash" \notin DOMAIN case_data.violations[i]
    /\ \E i \in 1..Len(case_data.documents) :
           JudgesOf(case_data.documents[i].value.legal_analysis) = <<>>
    /\ \E i \in 1..Len(case_data.documents) :
           DatesOf(case_data.documents[i].value.legal_analysis) = <<>>

\* the types of a list of violations
TypesIn(violations) == {violations[i].type : i \in 1..Len(violations)}

\* the types of a table with a pattern that matches the lower-cased text
MatchedTypes(table, t) ==
    {table[e].type : e \in {e \in 1..Len(table) :
        \E p \in 1..Len(table[e].patterns) :
            Len(finditer(table[e].patterns[p], Lower(t))) > 0}}

\* the condition on which the CPS/DHR table is scanned
ScansCps ==
    \/ Contains(<<"c","p","s">>, Lower(document_type))
    \/ Contains(<<"c","p","s">>, Lower(text))
    \/ Contains(<<"c","h","i","l","d"," ","p","r","o","t","e","c","t","i","v","e">>, Lower(text))
    \/ Contains(<<"d","h","r">>, Lower(text))

\* the condition on which the family-court table is scanned
ScansFamilyCourt ==
    \/ Contains(<<"c","u","s","t","o","d","y">>, Lower(document_type))
    \/ Contains(<<"f","a","m","i","l","y"," ","c","o","u","r","t">>, Lower(text))

\* C23: a call of detect_violations finds the types of the general table that
\* match, those of the CPS/DHR table exactly when the hint contains 'cps' or
\* the lower-cased text 'cps', 'child protective' or 'dhr', and those of the
\* family-court table exactly when the hint contains 'custody' or the
\* lower-cased text 'family court'; what it returns has the same types; and
\* the three tables of the object are after every call what __init__ made them.
C23_TablesScanned ==
    /\ detector = ViolationDetector
    /\ search = None
    /\ pc = "returned" =>
          /\ TypesIn(scanned) =
                MatchedTypes(violation_patterns, text)
                  \cup (IF ScansCps THEN MatchedTypes(cps_violations, text) ELSE {})
                  \cup (IF ScansFamilyCourt
                        THEN MatchedTypes(family_court_violations, text) ELSE {})
          /\ TypesIn(returned) = TypesIn(scanned)

\* C23 witness: a call returned a CPS/DHR violation and no family-court one
\* from a text that matches patterns of both sub-tables
C23_Witness ==
    /\ pc = "returned"
    /\ ScansCps /\ ~ScansFamilyCourt
    /\ MatchedTypes(family_court_violations, text) # {}
    /\ "visitation_denial" \in TypesIn(returned)
    /\ "judicial_bias" \notin TypesIn(returned)

\* the scores of the actors of the case, in the order the dict holds them
ActorScores == [i \in 1..Len(case_data.actor_tracking) |->
                   case_data.actor_tracking[i].value.severity_score]

\* C24: generate_case_summary, generate_violation_briefing and
\* export_case_data leave the case as it was; the summary lists at most 10
\* actors, in non-increasing order of severity_score and none with a smaller
\* score than an actor it leaves out, and at most 10 violations of high and
\* at most 10 of medium severity, each of the tier it is listed under.
C24_ReportsLeaveCase ==
    /\ [][case_data' = case_data]_vars
    /\ [](pc = "generate_case_summary" =>
            /\ Len(returned.actors) <= ActorsListed
            /\ Len(returned.actors) = Min(ActorsListed, Len(case_data.actor_tracking))
            /\ \A i \in 1..Len(returned.actors) :
                  /\ returned.actors[i].actor \in Keys(case_data.actor_tracking)
                  /\ returned.actors[i].severity_score =
                        Get(case_data.actor_tracking, returned.actors[i].actor).severity_score
                  /\ \A j \in 1..Len(returned.actors) :
                        i < j => returned.actors[i].severity_score
                                    >= returned.actors[j].severity_score
                  /\ \A k \in 1..Len(case_data.actor_tracking) :
                        (\A j \in 1..Len(returned.actors) :
                            returned.actors[j].actor # case_data.actor_tracking[k].key)
                        => ActorScores[k] <= returned.actors[i].severity_score
            /\ Len(returned.high) = Min(ViolationsListed,
                                        Len(OfSeverity(case_data.violations, "high")))
            /\ Len(returned.medium) = Min(ViolationsListed,
                                          Len(OfSeverity(case_data.violations, "medium"))))

\* C24 witness: the summary of a case with more than 10 actors, whose scores
\* the dict holds in another order, and more than 10 high violations
C24_Witness ==
    /\ pc = "generate_case_summary"
    /\ Len(case_data.actor_tracking) > ActorsListed
    /\ Len(returned.actors) = ActorsListed
    /\ \E i, j \in 1..Len(ActorScores) : i < j /\ ActorScores[i] < ActorScores[j]
    /\ Len(OfSeverity(case_data.violations, "high")) > ViolationsListed
    /\ Len(returned.high) = ViolationsListed

\* C25: the context of every match is text[max(0,s-100):min(n,e+100)], stripped,
\* for the span [s, e) of the match and the length n of the text; the span lies
\* in the text, the characters of the text in it are the matched ones up to
\* case and stand in the context, and the context is at most (e-s)+200 long.
C25_ContextWindow ==
    pc = "returned" =>
        \A k \in 1..Len(scanned) :
            LET s == scanned[k].position.start
                e == scanned[k].position.end
                n == Len(text)
                context == scanned[k].context
            IN  /\ context = Strip(Slice(text, Max(0, s - ContextRadius),
                                                Min(n, e + ContextRadius)))
                /\ e <= n
                /\ Lower(Slice(text, s, e)) = scanned[k].pattern_matched
                /\ Contains(Slice(text, s, e), context)
                /\ Len(context) <= (e - s) + 2 * ContextRadius

\* the places in date_formats of the formats that parse the date string
ParsingFormats(date_str) ==
    {i \in 1..Len(date_formats) : strptime(date_str, date_formats[i]) # None}

\* the places of the day-first formats %d/%m/%Y and %d-%m-%Y
DayFirstFormats == {i \in 1..Len(date_formats) :
                      /\ date_formats[i].shape = "numeric"
                      /\ date_formats[i].directives[1] = "d"}

\* the places of the month-first formats
MonthFirstFormats == {i \in 1..Len(date_formats) :
                        /\ date_formats[i].shape = "numeric"
                        /\ date_formats[i].directives[1] = "m"}

\* C26: _parse_date returns what the first format of the list that parses the
\* string reads, and none exactly when no format parses it; a numeric string
\* that parses both month-first and day-first is read month-first, and a
\* day-first reading is returned only when every format before it fails.
C26_FirstFormatWins ==
    pc = "_parse_date" =>
        LET parsing == ParsingFormats(text)
            first == CHOOSE i \in parsing : \A j \in parsing : i <= j
        IN  /\ (returned = None) <=> (parsing = {})
            /\ parsing # {} => returned = strptime(text, date_formats[first])
            /\ (parsing \cap MonthFirstFormats # {} /\ parsing \cap DayFirstFormats # {})
                  => /\ returned.month = text.a.val
                     /\ returned.day = text.b.val
            /\ \A i \in DayFirstFormats :
                  (i \in parsing /\ first = i) => \A j \in 1..(i - 1) : j \notin parsing

\* C26 witness: a string that parses month-first and day-first to two
\* different dates has been parsed
C26_Witness ==
    /\ pc = "_parse_date"
    /\ \E i \in ParsingFormats(text) \cap MonthFirstFormats,
           j \in ParsingFormats(text) \cap DayFirstFormats :
          strptime(text, date_formats[i]) # strptime(text, date_formats[j])
    /\ returned # None

\* C27: save_case_session leaves the case in memory as it was: every entity
\* collection is still a set with the members it had, and documents,
\* violations, timeline, actor_tracking and contradictions are unchanged.
C27_SaveLeavesCase ==
    [][pc' = "save_case_session" =>
          /\ case_data' = case_data
          /\ \A kind \in DOMAIN case_data'.entities :
                case_data'.entities[kind].py = "set"]_vars

\* the violations of the case stamped with the hash, in their order
StampedWith(pdf_hash) ==
    SelectSeq(case_data.violations,
              LAMBDA v : GetField(v, "document_hash", None) = pdf_hash)

\* C28: for every hash of case.documents, case.violations holds as many
\* violations stamped with the hash as the record under the hash has
\* potential violations, after any calls of add_document_to_case, a second
\* call under a hash of the case among them.
C28_ViolationsCountedOnce ==
    \A i \in 1..Len(case_data.documents) :
        Len(StampedWith(case_data.documents[i].key))
            = Len(case_data.documents[i].value.legal_analysis.potential_violations)

\* C29: search_all_documents comes to its end because each of its loops
\* does: every iteration of the while loop of _text_search, for every case,
\* query (the empty one too) and search type that runs it, either leaves the
\* loop or resumes the scan at a greater position.
C29_ScanAdvances ==
    [][(/\ pc = "searching" /\ pc' = "searching"
        /\ search.stage = "text" /\ search.in_loop /\ search'.in_loop)
           => search'.start_pos > search.start_pos]_vars

\* C30: the timeline of the case that load_case_session returns for the file
\* save_case_session writes has the events of the case's timeline, each with
\* the date value it had, and analyze_timeline_violations returns for it what
\* it returns for the case's timeline.
C30_TimelineSurvivesReload ==
    LET loaded == Reloaded(case_data)
    IN  /\ Len(loaded.timeline) = Len(case_data.timeline)
        /\ \A i \in 1..Len(case_data.timeline) :
               loaded.timeline[i].date = case_data.timeline[i].date
        /\ analyze_timeline_violations(loaded.timeline) # TypeError
        /\ analyze_timeline_violations(loaded.timeline)
               = analyze_timeline_violations(case_data.timeline)

====
